---- MODULE Spec2Model ----
(***************************************************************************)
(* Model of the three-layer waveform compilation pipeline of base-streamer *)
(* (Channel -> Device -> Streamer).                                         *)
(*                                                                         *)
(* Time is measured in whole seconds; a device with sample clock period P  *)
(* (an integer number of seconds) has samp_rate = 1/P, so that             *)
(* t * samp_rate = t / P is a rational number that round() takes to the    *)
(* nearest tick, halves away from zero, as f64::round does.                *)
(*                                                                         *)
(* Every operation of the source is a pure operator taking the receiver    *)
(* (a channel, a device, the device list) and returning a record with the  *)
(* outcome `res` ("Ok", "Err" or "Panic") and the receiver after the call. *)
(* The actions apply these operators to the state.                         *)
(***************************************************************************)
EXTENDS Integers, Sequences, FiniteSets, TLC

VARIABLES
    devs,   \* BaseStreamer::devs: the devices in insertion order, each with its channels
    ret     \* the last call made on the streamer graph and what it returned

vars == <<devs, ret>>

----------------------------------------------------------------------------
(* Bounds of the model *)

\* times passed to the operations range over 0..MaxT seconds
MaxT == 4
\* durations passed to add_instr range over -1..MaxDur seconds
MaxDur == 3
\* tick positions passed to the channel operations range over 0..MaxPos
MaxPos == MaxT - 1
\* edits are accepted while all channels together hold at most MaxInstrs instructions
MaxInstrs == 2
\* sample buffers passed to calc_samps have up to MaxBuf elements
MaxBuf == MaxPos
\* sample buffers passed to Device.calc_samps have up to MaxDevBuf elements, enough
\* for two rows of two samples
MaxDevBuf == MaxBuf + 1
\* with only the edit operations enabled the edit caches hold up to MaxEditInstrs
MaxEditInstrs == MaxInstrs + 1

----------------------------------------------------------------------------
(* Option values and small helpers *)

None == <<>>
Some(x) == <<x>>
IsSome(o) == o # None
Unwrap(o) == o[1]

Max(a, b) == IF a >= b THEN a ELSE b
Min(a, b) == IF a <= b THEN a ELSE b

\* f64::round of the rational num/den (den > 0): nearest integer, halves away from zero
Round(num, den) ==
    IF num >= 0 THEN (2 * num + den) \div (2 * den)
    ELSE 0 - ((2 * (0 - num) + den) \div (2 * den))

\* `x as usize` of a rounded f64: negative values saturate to 0
AsUsize(x) == IF x < 0 THEN 0 ELSE x

\* (t * samp_rate).round() as usize, with samp_rate = 1 / clk_period
TimeToPos(t, clk_period) == AsUsize(Round(t, clk_period))

\* pos as f64 * clk_period
PosToTime(pos, clk_period) == pos * clk_period

----------------------------------------------------------------------------
(* Waveform functions *)

ConstFn(val) == [kind |-> "ConstFn", p |-> <<val>>]
LinFn(slope, offs) == [kind |-> "LinFn", p |-> <<slope, offs>>]

\* Calc::calc on one time point
Calc(func, t) ==
    IF func.kind = "ConstFn" THEN func.p[1]
    ELSE func.p[1] * t + func.p[2]

\* Calc::calc on a slice: one sample per time point
CalcArr(func, t_arr) == [i \in 1..Len(t_arr) |-> Calc(func, t_arr[i])]

----------------------------------------------------------------------------
(* Instr *)

\* Instr::new: panics unless start_pos + 1 <= end_pos for a specified end
Instr_new_ok(start_pos, end_spec) ==
    IsSome(end_spec) => start_pos + 1 <= end_spec[1]

Instr_new(start_pos, end_spec, func) ==
    [start_pos |-> start_pos, end_spec |-> end_spec, func |-> func]

Instr_end_pos(instr) ==
    IF IsSome(instr.end_spec) THEN Some(instr.end_spec[1]) ELSE None

Instr_eff_end_pos(instr) ==
    IF IsSome(Instr_end_pos(instr)) THEN Unwrap(Instr_end_pos(instr)) ELSE instr.start_pos + 1

Instr_dur(instr) ==
    IF IsSome(instr.end_spec) THEN Some(instr.end_spec[1] - instr.start_pos) ELSE None

\* BTreeSet<Instr>::insert: ordering and equality are by start_pos alone, and
\* insert keeps the element already present
BTreeInsert(set, instr) ==
    IF \E i \in set : i.start_pos = instr.start_pos THEN set ELSE set \cup {instr}

\* BTreeSet iteration order: ascending start_pos
RECURSIVE SortedInstrs(_)
SortedInstrs(set) ==
    IF set = {} THEN <<>>
    ELSE LET first == CHOOSE i \in set : \A j \in set : i.start_pos <= j.start_pos
         IN <<first>> \o SortedInstrs(set \ {first})

\* instr_list.last()
LastInstr(set) == CHOOSE i \in set : \A j \in set : j.start_pos <= i.start_pos
\* instr_list.first()
FirstInstr(set) == CHOOSE i \in set : \A j \in set : i.start_pos <= j.start_pos

----------------------------------------------------------------------------
(* BaseChan *)

\* A channel as its constructor leaves it (TestChan::new): empty caches, fresh
NewChan(name, clk_period, dflt_val, rst_val) ==
    [name |-> name, clk_period |-> clk_period,
     dflt_val |-> dflt_val, rst_val |-> rst_val,
     instr_list |-> {},
     compile_cache_ends |-> <<>>, compile_cache_fns |-> <<>>,
     is_fresh_compiled |-> TRUE]

BaseChan_got_instructions(chan) == chan.instr_list # {}

BaseChan_last_instr_end_pos(chan) ==
    IF chan.instr_list = {} THEN None
    ELSE Some(Instr_eff_end_pos(LastInstr(chan.instr_list)))

BaseChan_last_instr_end_time(chan) ==
    IF IsSome(BaseChan_last_instr_end_pos(chan))
    THEN Some(PosToTime(Unwrap(BaseChan_last_instr_end_pos(chan)), chan.clk_period))
    ELSE None

\* clear_compile_cache that resets the flag and leaves the two vectors as they are
BaseChan_clear_compile_cache_flag_only(chan) ==
    [chan EXCEPT !.is_fresh_compiled = (chan.instr_list = {})]

BaseChan_clear_compile_cache(chan) ==
    [chan EXCEPT !.compile_cache_ends = <<>>,
                 !.compile_cache_fns = <<>>,
                 !.is_fresh_compiled = (chan.instr_list = {})]

\* clear_edit_cache that empties both caches and leaves the flag as it is
BaseChan_clear_edit_cache_keeps_flag(chan) ==
    [chan EXCEPT !.instr_list = {},
                 !.compile_cache_ends = <<>>,
                 !.compile_cache_fns = <<>>]

\* clear_edit_cache that empties the edit cache and leaves the compile cache alone
BaseChan_clear_edit_cache_edit_only(chan) ==
    [chan EXCEPT !.instr_list = {}]

BaseChan_clear_edit_cache(chan) ==
    BaseChan_clear_compile_cache([chan EXCEPT !.instr_list = {}])

\* the sweep of compile() that gives an instruction without a specified end one tick
\* and pads the rest of its span with the value it has there
RECURSIVE CompileSweep_go_this_padded(_, _, _, _)
CompileSweep_go_this_padded(chan, sorted, i, stop_pos) ==
    IF i > Len(sorted) THEN <<>>
    ELSE
        LET instr == sorted[i]
            next_edge == IF i < Len(sorted) THEN sorted[i + 1].start_pos ELSE stop_pos
            e == IF IsSome(instr.end_spec) THEN instr.end_spec[1] ELSE instr.start_pos + 1
            keep_val == IF IsSome(instr.end_spec) THEN instr.end_spec[2] ELSE TRUE
            pad_val == IF keep_val
                       THEN Calc(instr.func, PosToTime(e, chan.clk_period))
                       ELSE chan.dflt_val
            pushed ==
                <<[end |-> e, func |-> instr.func]>>
                \o (IF e < next_edge
                    THEN <<[end |-> next_edge, func |-> ConstFn(pad_val)]>>
                    ELSE <<>>)
        IN  pushed \o CompileSweep_go_this_padded(chan, sorted, i + 1, stop_pos)

\* the sweep of compile() that pads with the channel default value whatever keep_val
RECURSIVE CompileSweep_pad_default(_, _, _, _)
CompileSweep_pad_default(chan, sorted, i, stop_pos) ==
    IF i > Len(sorted) THEN <<>>
    ELSE
        LET instr == sorted[i]
            next_edge == IF i < Len(sorted) THEN sorted[i + 1].start_pos ELSE stop_pos
            pushed ==
                IF IsSome(instr.end_spec) THEN
                    LET e == instr.end_spec[1]
                    IN  <<[end |-> e, func |-> instr.func]>>
                        \o (IF e < next_edge
                            THEN <<[end |-> next_edge, func |-> ConstFn(chan.dflt_val)]>>
                            ELSE <<>>)
                ELSE <<[end |-> next_edge, func |-> instr.func]>>
        IN  pushed \o CompileSweep_pad_default(chan, sorted, i + 1, stop_pos)

\* The (end, func) pairs compile() pushes for the instructions sorted[i..]
RECURSIVE CompileSweep(_, _, _, _)
CompileSweep(chan, sorted, i, stop_pos) ==
    IF i > Len(sorted) THEN <<>>
    ELSE
        LET instr == sorted[i]
            next_edge == IF i < Len(sorted) THEN sorted[i + 1].start_pos ELSE stop_pos
            pushed ==
                IF IsSome(instr.end_spec) THEN
                    LET e == instr.end_spec[1]
                        keep_val == instr.end_spec[2]
                        pad_val == IF keep_val
                                   THEN Calc(instr.func, PosToTime(e, chan.clk_period))
                                   ELSE chan.dflt_val
                    IN  <<[end |-> e, func |-> instr.func]>>
                        \o (IF e < next_edge
                            THEN <<[end |-> next_edge, func |-> ConstFn(pad_val)]>>
                            ELSE <<>>)
                ELSE <<[end |-> next_edge, func |-> instr.func]>>
        IN  pushed \o CompileSweep(chan, sorted, i + 1, stop_pos)

\* compile that pushes no padding before the first instruction
CompileSegs_never_lead(chan, stop_pos) ==
    CompileSweep(chan, SortedInstrs(chan.instr_list), 1, stop_pos)

\* compile that pushes the leading padding without looking at the first start position
CompileSegs_always_lead(chan, stop_pos) ==
    <<[end |-> FirstInstr(chan.instr_list).start_pos, func |-> ConstFn(chan.dflt_val)]>>
    \o CompileSweep(chan, SortedInstrs(chan.instr_list), 1, stop_pos)

\* Padding before the first instruction, then all instructions and their paddings
CompileSegs(chan, stop_pos) ==
    LET first_start_pos == FirstInstr(chan.instr_list).start_pos
        lead == IF first_start_pos > 0
                THEN <<[end |-> first_start_pos, func |-> ConstFn(chan.dflt_val)]>>
                ELSE <<>>
    IN  lead \o CompileSweep(chan, SortedInstrs(chan.instr_list), 1, stop_pos)

\* compile that makes its checks before it clears the compile cache
BaseChan_compile_checks_first(chan, stop_pos) ==
    IF ~BaseChan_got_instructions(chan) THEN [res |-> "Err", chan |-> chan]
    ELSE IF stop_pos < Unwrap(BaseChan_last_instr_end_pos(chan))
    THEN [res |-> "Err", chan |-> chan]
    ELSE
        LET cleared == BaseChan_clear_compile_cache(chan)
            segs == CompileSegs(cleared, stop_pos)
        IN
        [res |-> "Ok",
         chan |-> [cleared EXCEPT
                     !.compile_cache_ends = @ \o [i \in 1..Len(segs) |-> segs[i].end],
                     !.compile_cache_fns = @ \o [i \in 1..Len(segs) |-> segs[i].func],
                     !.is_fresh_compiled = TRUE]]

BaseChan_compile(chan, stop_pos) ==
    LET cleared == BaseChan_clear_compile_cache(chan) IN
    IF ~BaseChan_got_instructions(cleared) THEN [res |-> "Err", chan |-> cleared]
    ELSE IF stop_pos < Unwrap(BaseChan_last_instr_end_pos(cleared))
    THEN [res |-> "Err", chan |-> cleared]
    ELSE
        LET segs == CompileSegs(cleared, stop_pos) IN
        [res |-> "Ok",
         chan |-> [cleared EXCEPT
                     !.compile_cache_ends = @ \o [i \in 1..Len(segs) |-> segs[i].end],
                     !.compile_cache_fns = @ \o [i \in 1..Len(segs) |-> segs[i].func],
                     !.is_fresh_compiled = TRUE]]

BaseChan_validate_compile_cache(chan) ==
    IF chan.is_fresh_compiled THEN "Ok" ELSE "Err"

\* compiled_stop_pos panics on a stale cache and on a valid but empty cache
BaseChan_compiled_stop_pos(chan) ==
    IF BaseChan_validate_compile_cache(chan) = "Err" THEN [res |-> "Panic", val |-> 0]
    ELSE IF chan.compile_cache_ends = <<>> THEN [res |-> "Panic", val |-> 0]
    ELSE [res |-> "Ok", val |-> chan.compile_cache_ends[Len(chan.compile_cache_ends)]]

BaseChan_compiled_stop_time(chan) ==
    LET p == BaseChan_compiled_stop_pos(chan) IN
    IF p.res = "Panic" THEN p
    ELSE [res |-> "Ok", val |-> PosToTime(p.val, chan.clk_period)]

\* instr_list.range(..&new_instr).next_back(): greatest start_pos below new_instr's
LeftNeighbour(set, start_pos) ==
    LET below == {i \in set : i.start_pos < start_pos} IN
    IF below = {} THEN None ELSE Some(LastInstr(below))

\* a right neighbour looked up strictly above the start of the new instruction
RightNeighbour_strictly_above(set, start_pos) ==
    LET above == {i \in set : i.start_pos > start_pos} IN
    IF above = {} THEN None ELSE Some(FirstInstr(above))

\* instr_list.range(&new_instr..).next(): smallest start_pos at or above new_instr's
RightNeighbour(set, start_pos) ==
    LET above == {i \in set : i.start_pos >= start_pos} IN
    IF above = {} THEN None ELSE Some(FirstInstr(above))

\* add_instr without the collision check on the left
AddInstrLeft_unchecked(chan, new_instr) ==
    [res |-> "Ok", err |-> "", instr |-> new_instr]

\* The collision check on the left: the new instruction as it leaves the check
AddInstrLeft(chan, new_instr) ==
    LET prev == LeftNeighbour(chan.instr_list, new_instr.start_pos) IN
    IF ~IsSome(prev) THEN [res |-> "Ok", err |-> "", instr |-> new_instr]
    ELSE
        LET prev_end == Instr_eff_end_pos(Unwrap(prev)) IN
        IF prev_end <= new_instr.start_pos
        THEN [res |-> "Ok", err |-> "", instr |-> new_instr]
        ELSE IF prev_end = new_instr.start_pos + 1 THEN
            IF IsSome(Instr_dur(new_instr)) /\ ~(Unwrap(Instr_dur(new_instr)) - 1 >= 1)
            THEN [res |-> "Panic", err |-> "Unrepairable1TickLeft", instr |-> new_instr]
            ELSE [res |-> "Ok", err |-> "",
                  instr |-> [new_instr EXCEPT !.start_pos = @ + 1]]
        ELSE [res |-> "Err", err |-> "CollisionLeft", instr |-> new_instr]

\* a collision check on the right that accepts a 1-tick overlap without trimming
AddInstrRight_untrimmed(chan, new_instr) ==
    LET next == RightNeighbour(chan.instr_list, new_instr.start_pos) IN
    IF ~IsSome(next) THEN [res |-> "Ok", err |-> "", instr |-> new_instr]
    ELSE
        LET new_end == Instr_eff_end_pos(new_instr)
            next_start == Unwrap(next).start_pos
        IN
        IF new_end <= next_start
        THEN [res |-> "Ok", err |-> "", instr |-> new_instr]
        ELSE IF new_end = next_start + 1 THEN
            IF ~IsSome(Instr_dur(new_instr))
            THEN [res |-> "Err", err |-> "GoThisBeforeInstr", instr |-> new_instr]
            ELSE IF ~(Unwrap(Instr_dur(new_instr)) - 1 >= 1)
            THEN [res |-> "Panic", err |-> "Unrepairable1TickRight", instr |-> new_instr]
            ELSE [res |-> "Ok", err |-> "", instr |-> new_instr]
        ELSE [res |-> "Err", err |-> "CollisionRight", instr |-> new_instr]

\* add_instr without the collision check on the right
AddInstrRight_unchecked(chan, new_instr) ==
    [res |-> "Ok", err |-> "", instr |-> new_instr]

\* a collision check on the right that trims the new instruction to the start of the
\* right neighbour whatever the overlap
AddInstrRight_trims_any(chan, new_instr) ==
    LET next == RightNeighbour(chan.instr_list, new_instr.start_pos) IN
    IF ~IsSome(next) THEN [res |-> "Ok", err |-> "", instr |-> new_instr]
    ELSE
        LET new_end == Instr_eff_end_pos(new_instr)
            next_start == Unwrap(next).start_pos
        IN
        IF new_end <= next_start
        THEN [res |-> "Ok", err |-> "", instr |-> new_instr]
        ELSE IF ~IsSome(Instr_dur(new_instr))
        THEN [res |-> "Err", err |-> "GoThisBeforeInstr", instr |-> new_instr]
        ELSE IF ~(next_start - new_instr.start_pos >= 1)
        THEN [res |-> "Err", err |-> "CollisionRight", instr |-> new_instr]
        ELSE [res |-> "Ok", err |-> "",
              instr |-> [new_instr EXCEPT !.end_spec[1] = next_start]]

\* The collision check on the right
AddInstrRight(chan, new_instr) ==
    LET next == RightNeighbour(chan.instr_list, new_instr.start_pos) IN
    IF ~IsSome(next) THEN [res |-> "Ok", err |-> "", instr |-> new_instr]
    ELSE
        LET new_end == Instr_eff_end_pos(new_instr)
            next_start == Unwrap(next).start_pos
        IN
        IF new_end <= next_start
        THEN [res |-> "Ok", err |-> "", instr |-> new_instr]
        ELSE IF new_end = next_start + 1 THEN
            IF ~IsSome(Instr_dur(new_instr))
            THEN [res |-> "Err", err |-> "GoThisBeforeInstr", instr |-> new_instr]
            ELSE IF ~(Unwrap(Instr_dur(new_instr)) - 1 >= 1)
            THEN [res |-> "Panic", err |-> "Unrepairable1TickRight", instr |-> new_instr]
            ELSE [res |-> "Ok", err |-> "",
                  instr |-> [new_instr EXCEPT !.end_spec[1] = @ - 1]]
        ELSE [res |-> "Err", err |-> "CollisionRight", instr |-> new_instr]

\* add_instr that marks the channel as edited before it checks the instruction
BaseChan_add_instr_mark_first(chan, func, t, dur_spec) ==
    IF ~(2 * t > 0 - chan.clk_period)
    THEN [res |-> "Panic", err |-> "NegativeTime", chan |-> [chan EXCEPT !.is_fresh_compiled = FALSE]]
    ELSE
        LET start_pos == TimeToPos(t, chan.clk_period)
            end_tick == IF IsSome(dur_spec)
                        THEN TimeToPos(t + dur_spec[1], chan.clk_period)
                        ELSE 0
            end_spec == IF IsSome(dur_spec) THEN <<end_tick, dur_spec[2]>> ELSE None
        IN
        \* usize `end_pos - start_pos`: below zero it overflows (a panic in a checked
        \* build; wrapped, it passes the `< 1` test and Instr::new panics instead)
        IF IsSome(dur_spec) /\ end_tick < start_pos
        THEN [res |-> "Panic", err |-> "Overflow", chan |-> [chan EXCEPT !.is_fresh_compiled = FALSE]]
        ELSE IF IsSome(dur_spec) /\ end_tick - start_pos < 1
        THEN [res |-> "Err", err |-> "ShortPulse", chan |-> [chan EXCEPT !.is_fresh_compiled = FALSE]]
        ELSE
            LET left == AddInstrLeft(chan, Instr_new(start_pos, end_spec, func)) IN
            IF left.res # "Ok" THEN [res |-> left.res, err |-> left.err, chan |-> [chan EXCEPT !.is_fresh_compiled = FALSE]]
            ELSE
                LET right == AddInstrRight(chan, left.instr) IN
                IF right.res # "Ok"
                THEN [res |-> right.res, err |-> right.err, chan |-> [chan EXCEPT !.is_fresh_compiled = FALSE]]
                ELSE [res |-> "Ok", err |-> "",
                      chan |-> [chan EXCEPT
                                  !.instr_list = BTreeInsert(@, right.instr),
                                  !.is_fresh_compiled = FALSE]]

\* add_instr(func, t, dur_spec): dur_spec is None or <<dur, keep_val>>
BaseChan_add_instr(chan, func, t, dur_spec) ==
    IF ~(2 * t > 0 - chan.clk_period)
    THEN [res |-> "Panic", err |-> "NegativeTime", chan |-> chan]
    ELSE
        LET start_pos == TimeToPos(t, chan.clk_period)
            end_tick == IF IsSome(dur_spec)
                        THEN TimeToPos(t + dur_spec[1], chan.clk_period)
                        ELSE 0
            end_spec == IF IsSome(dur_spec) THEN <<end_tick, dur_spec[2]>> ELSE None
        IN
        \* usize `end_pos - start_pos`: below zero it overflows (a panic in a checked
        \* build; wrapped, it passes the `< 1` test and Instr::new panics instead)
        IF IsSome(dur_spec) /\ end_tick < start_pos
        THEN [res |-> "Panic", err |-> "Overflow", chan |-> chan]
        ELSE IF IsSome(dur_spec) /\ end_tick - start_pos < 1
        THEN [res |-> "Err", err |-> "ShortPulse", chan |-> chan]
        ELSE
            LET left == AddInstrLeft(chan, Instr_new(start_pos, end_spec, func)) IN
            IF left.res # "Ok" THEN [res |-> left.res, err |-> left.err, chan |-> chan]
            ELSE
                LET right == AddInstrRight(chan, left.instr) IN
                IF right.res # "Ok"
                THEN [res |-> right.res, err |-> right.err, chan |-> chan]
                ELSE [res |-> "Ok", err |-> "",
                      chan |-> [chan EXCEPT
                                  !.instr_list = BTreeInsert(@, right.instr),
                                  !.is_fresh_compiled = FALSE]]

BaseChan_constant(chan, val, t, dur_spec) ==
    BaseChan_add_instr(chan, ConstFn(val), t, dur_spec)

\* add_reset_instr without the check against the end of the last instruction
BaseChan_add_reset_instr_unchecked(chan, reset_pos) ==
    [res |-> "Ok",
     chan |-> [chan EXCEPT !.instr_list =
                 BTreeInsert(@, Instr_new(reset_pos, None, ConstFn(chan.rst_val)))]]

BaseChan_add_reset_instr(chan, reset_pos) ==
    IF IsSome(BaseChan_last_instr_end_pos(chan))
       /\ reset_pos < Unwrap(BaseChan_last_instr_end_pos(chan))
    THEN [res |-> "Err", chan |-> chan]
    ELSE [res |-> "Ok",
          chan |-> [chan EXCEPT !.instr_list =
                      BTreeInsert(@, Instr_new(reset_pos, None, ConstFn(chan.rst_val)))]]

\* slice::binary_search on an ascending Vec: Ok(idx) of the match, or Err(idx) of
\* the insertion point; indices are 0-based as in the source
BinarySearch(ends, x) ==
    IF \E i \in 1..Len(ends) : ends[i] = x
    THEN [found |-> TRUE, idx |-> (CHOOSE i \in 1..Len(ends) : ends[i] = x) - 1]
    ELSE [found |-> FALSE, idx |-> Cardinality({i \in 1..Len(ends) : ends[i] < x})]

\* a sweep in which every segment fills the buffer from the start of the window
RECURSIVE FillSweep_from_window_start(_, _, _, _, _, _, _)
FillSweep_from_window_start(chan, idx, last_instr_idx, cur_pos, window, res_arr, t_arr) ==
    IF idx > last_instr_idx THEN [res |-> "Ok", res_arr |-> res_arr]
    ELSE IF idx + 1 > Len(chan.compile_cache_ends)
    THEN [res |-> "Panic", res_arr |-> res_arr]
    ELSE
        LET instr_end == chan.compile_cache_ends[idx + 1]
            instr_func == chan.compile_cache_fns[idx + 1]
            next_pos == Min(instr_end, window.window_end)
            lo == 0
            hi == next_pos - window.window_start
        IN
        IF lo < 0 \/ hi < 0 \/ lo > hi \/ hi > Len(res_arr)
        THEN [res |-> "Panic", res_arr |-> res_arr]
        ELSE FillSweep_from_window_start(chan, idx + 1, last_instr_idx, next_pos, window,
                       [i \in 1..Len(res_arr) |->
                            IF lo < i /\ i <= hi THEN Calc(instr_func, t_arr[i])
                            ELSE res_arr[i]],
                       t_arr)

\* a sweep over compile cache entries idx..last_instr_idx, the last one left out
RECURSIVE FillSweep_last_excluded(_, _, _, _, _, _, _)
FillSweep_last_excluded(chan, idx, last_instr_idx, cur_pos, window, res_arr, t_arr) ==
    IF idx >= last_instr_idx THEN [res |-> "Ok", res_arr |-> res_arr]
    ELSE IF idx + 1 > Len(chan.compile_cache_ends)
    THEN [res |-> "Panic", res_arr |-> res_arr]
    ELSE
        LET instr_end == chan.compile_cache_ends[idx + 1]
            instr_func == chan.compile_cache_fns[idx + 1]
            next_pos == Min(instr_end, window.window_end)
            lo == cur_pos - window.window_start
            hi == next_pos - window.window_start
        IN
        IF lo < 0 \/ hi < 0 \/ lo > hi \/ hi > Len(res_arr)
        THEN [res |-> "Panic", res_arr |-> res_arr]
        ELSE FillSweep_last_excluded(chan, idx + 1, last_instr_idx, next_pos, window,
                       [i \in 1..Len(res_arr) |->
                            IF lo < i /\ i <= hi THEN Calc(instr_func, t_arr[i])
                            ELSE res_arr[i]],
                       t_arr)

\* The loop of fill_samps over compile cache entries idx..=last_instr_idx.
\* Indexing past the cache or slicing with start > end panics.
RECURSIVE FillSweep(_, _, _, _, _, _, _)
FillSweep(chan, idx, last_instr_idx, cur_pos, window, res_arr, t_arr) ==
    IF idx > last_instr_idx THEN [res |-> "Ok", res_arr |-> res_arr]
    ELSE IF idx + 1 > Len(chan.compile_cache_ends)
    THEN [res |-> "Panic", res_arr |-> res_arr]
    ELSE
        LET instr_end == chan.compile_cache_ends[idx + 1]
            instr_func == chan.compile_cache_fns[idx + 1]
            next_pos == Min(instr_end, window.window_end)
            lo == cur_pos - window.window_start
            hi == next_pos - window.window_start
        IN
        IF lo < 0 \/ hi < 0 \/ lo > hi \/ hi > Len(res_arr)
        THEN [res |-> "Panic", res_arr |-> res_arr]
        ELSE FillSweep(chan, idx + 1, last_instr_idx, next_pos, window,
                       [i \in 1..Len(res_arr) |->
                            IF lo < i /\ i <= hi THEN Calc(instr_func, t_arr[i])
                            ELSE res_arr[i]],
                       t_arr)

BaseChan_fill_samps(chan, start_pos, res_arr, t_arr) ==
    IF ~BaseChan_got_instructions(chan) THEN [res |-> "Err", res_arr |-> res_arr]
    ELSE IF BaseChan_validate_compile_cache(chan) = "Err"
    THEN [res |-> "Err", res_arr |-> res_arr]
    ELSE IF Len(res_arr) # Len(t_arr) THEN [res |-> "Err", res_arr |-> res_arr]
    ELSE
        LET window_start == start_pos
            window_end == window_start + Len(res_arr)
            stop == BaseChan_compiled_stop_pos(chan)
        IN
        IF stop.res = "Panic" THEN [res |-> "Panic", res_arr |-> res_arr]
        ELSE IF window_end > stop.val THEN [res |-> "Err", res_arr |-> res_arr]
        ELSE IF Len(res_arr) = 0 THEN [res |-> "Ok", res_arr |-> res_arr]
        ELSE
            LET first == BinarySearch(chan.compile_cache_ends, window_start)
                last == BinarySearch(chan.compile_cache_ends, window_end)
                first_instr_idx == IF first.found THEN first.idx + 1 ELSE first.idx
                last_instr_idx == last.idx
            IN  FillSweep(chan, first_instr_idx, last_instr_idx, window_start,
                          [window_start |-> window_start, window_end |-> window_end],
                          res_arr, t_arr)

\* eval_point that takes the end tick of an instruction as still covered by it
BaseChan_eval_point_end_included(chan, t) ==
    IF 2 * t < 0 - chan.clk_period THEN [res |-> "Err", val |-> 0]
    ELSE
        LET t_pos == TimeToPos(t, chan.clk_period)
            before == {i \in chan.instr_list : i.start_pos <= t_pos}
        IN
        IF before = {} THEN [res |-> "Ok", val |-> chan.dflt_val]
        ELSE
            LET prev_instr == LastInstr(before) IN
            IF IsSome(prev_instr.end_spec) /\ t_pos > prev_instr.end_spec[1]
                                           /\ ~prev_instr.end_spec[2]
            THEN [res |-> "Ok", val |-> chan.dflt_val]
            ELSE IF IsSome(prev_instr.end_spec) /\ t_pos > prev_instr.end_spec[1]
            THEN [res |-> "Ok",
                  val |-> Calc(prev_instr.func,
                               PosToTime(prev_instr.end_spec[1], chan.clk_period))]
            ELSE [res |-> "Ok",
                  val |-> Calc(prev_instr.func, PosToTime(t_pos, chan.clk_period))]

\* eval_point(t)
BaseChan_eval_point(chan, t) ==
    IF 2 * t < 0 - chan.clk_period THEN [res |-> "Err", val |-> 0]
    ELSE
        LET t_pos == TimeToPos(t, chan.clk_period)
            before == {i \in chan.instr_list : i.start_pos <= t_pos}
        IN
        IF before = {} THEN [res |-> "Ok", val |-> chan.dflt_val]
        ELSE
            LET prev_instr == LastInstr(before) IN
            IF IsSome(prev_instr.end_spec) THEN
                IF t_pos < prev_instr.end_spec[1]
                THEN [res |-> "Ok",
                      val |-> Calc(prev_instr.func, PosToTime(t_pos, chan.clk_period))]
                ELSE IF prev_instr.end_spec[2]
                THEN [res |-> "Ok",
                      val |-> Calc(prev_instr.func,
                                   PosToTime(prev_instr.end_spec[1], chan.clk_period))]
                ELSE [res |-> "Ok", val |-> chan.dflt_val]
            ELSE [res |-> "Ok",
                  val |-> Calc(prev_instr.func, PosToTime(t_pos, chan.clk_period))]

----------------------------------------------------------------------------
(* BaseDev *)

\* A device as its constructor leaves it, with its channels registered
NewDev(name, variant, clk_period, chans) ==
    [name |-> name, variant |-> variant, clk_period |-> clk_period, chans |-> chans]

BaseDev_got_instructions(dev) ==
    \E i \in 1..Len(dev.chans) : BaseChan_got_instructions(dev.chans[i])

\* The indices (registration order) of the channels that got instructions
ActiveIdx(dev) ==
    {i \in 1..Len(dev.chans) : BaseChan_got_instructions(dev.chans[i])}

\* every channel of the device taken as active
BaseDev_active_chans_all(dev) == dev.chans

BaseDev_active_chans(dev) == SelectSeq(dev.chans, BaseChan_got_instructions)

RECURSIVE MaxOfSet(_)
MaxOfSet(S) ==
    LET x == CHOOSE y \in S : TRUE IN
    IF S = {x} THEN x ELSE Max(x, MaxOfSet(S \ {x}))

RECURSIVE MinOfSet(_)
MinOfSet(S) ==
    LET x == CHOOSE y \in S : TRUE IN
    IF S = {x} THEN x ELSE Min(x, MinOfSet(S \ {x}))

BaseDev_last_instr_end_pos(dev) ==
    LET ends == {Unwrap(BaseChan_last_instr_end_pos(dev.chans[i])) : i \in ActiveIdx(dev)}
    IN  IF ends = {} THEN None ELSE Some(MaxOfSet(ends))

BaseDev_last_instr_end_time(dev) ==
    IF IsSome(BaseDev_last_instr_end_pos(dev))
    THEN Some(PosToTime(Unwrap(BaseDev_last_instr_end_pos(dev)), dev.clk_period))
    ELSE None

\* `for chan in self.chans_mut() { chan.add_reset_instr(reset_pos)? }` from chans[i] on
RECURSIVE ResetChans(_, _, _)
ResetChans(chans, i, reset_pos) ==
    IF i > Len(chans) THEN [res |-> "Ok", chans |-> chans]
    ELSE
        LET r == BaseChan_add_reset_instr(chans[i], reset_pos) IN
        IF r.res # "Ok" THEN [res |-> r.res, chans |-> chans]
        ELSE ResetChans([chans EXCEPT ![i] = r.chan], i + 1, reset_pos)

\* a device reset that reaches the channels with instructions only
BaseDev_add_reset_instr_active_only(dev, reset_time) ==
    LET reset_pos == TimeToPos(reset_time, dev.clk_period) IN
    IF IsSome(BaseDev_last_instr_end_pos(dev))
       /\ reset_pos < Unwrap(BaseDev_last_instr_end_pos(dev))
    THEN [res |-> "Err", dev |-> dev]
    ELSE
        [res |-> "Ok",
         dev |-> [dev EXCEPT !.chans =
                    [i \in 1..Len(dev.chans) |->
                        IF BaseChan_got_instructions(dev.chans[i])
                        THEN BaseChan_add_reset_instr(dev.chans[i], reset_pos).chan
                        ELSE dev.chans[i]]]]

BaseDev_add_reset_instr(dev, reset_time) ==
    LET reset_pos == TimeToPos(reset_time, dev.clk_period) IN
    IF IsSome(BaseDev_last_instr_end_pos(dev))
       /\ reset_pos < Unwrap(BaseDev_last_instr_end_pos(dev))
    THEN [res |-> "Err", dev |-> dev]
    ELSE
        LET r == ResetChans(dev.chans, 1, reset_pos) IN
        [res |-> r.res, dev |-> [dev EXCEPT !.chans = r.chans]]

BaseDev_clear_compile_cache(dev) ==
    [dev EXCEPT !.chans =
        [i \in 1..Len(dev.chans) |-> BaseChan_clear_compile_cache(dev.chans[i])]]

\* a device clear_edit_cache that clears the compile caches and keeps the edit caches
BaseDev_clear_edit_cache_compile_only(dev) ==
    BaseDev_clear_compile_cache(dev)

BaseDev_clear_edit_cache(dev) ==
    BaseDev_clear_compile_cache(
        [dev EXCEPT !.chans =
            [i \in 1..Len(dev.chans) |-> BaseChan_clear_edit_cache(dev.chans[i])]])

\* a clipping test that looks at the effective end of the last instruction, so that a
\* last go-this instruction counts as well
BaseDev_is_closing_edge_clipped_eff_end(dev, stop_tick) ==
    IF IsSome(BaseDev_last_instr_end_pos(dev))
       /\ stop_tick < Unwrap(BaseDev_last_instr_end_pos(dev))
    THEN [res |-> "Panic", val |-> FALSE]
    ELSE [res |-> "Ok",
          val |-> \E i \in ActiveIdx(dev) :
                    stop_tick = Instr_eff_end_pos(LastInstr(dev.chans[i].instr_list))]

BaseDev_is_closing_edge_clipped(dev, stop_tick) ==
    IF IsSome(BaseDev_last_instr_end_pos(dev))
       /\ stop_tick < Unwrap(BaseDev_last_instr_end_pos(dev))
    THEN [res |-> "Panic", val |-> FALSE]
    ELSE [res |-> "Ok",
          val |-> \E i \in ActiveIdx(dev) :
                    LET last_instr == LastInstr(dev.chans[i].instr_list) IN
                    IsSome(Instr_end_pos(last_instr)) /\ stop_tick = Unwrap(Instr_end_pos(last_instr))]

\* a device compile that compiles each channel up to that channel's own last end
RECURSIVE CompileChans_own_end(_, _, _)
CompileChans_own_end(chans, i, stop_pos) ==
    IF i > Len(chans) THEN [res |-> "Ok", chans |-> chans]
    ELSE IF ~BaseChan_got_instructions(chans[i])
    THEN CompileChans_own_end(chans, i + 1, stop_pos)
    ELSE
        LET r == BaseChan_compile(chans[i], Unwrap(BaseChan_last_instr_end_pos(chans[i]))) IN
        IF r.res # "Ok" THEN [res |-> r.res, chans |-> [chans EXCEPT ![i] = r.chan]]
        ELSE CompileChans_own_end([chans EXCEPT ![i] = r.chan], i + 1, stop_pos)

\* `for chan in self.active_chans_mut() { chan.compile(stop_pos)? }` from chans[i] on
RECURSIVE CompileChans(_, _, _)
CompileChans(chans, i, stop_pos) ==
    IF i > Len(chans) THEN [res |-> "Ok", chans |-> chans]
    ELSE IF ~BaseChan_got_instructions(chans[i]) THEN CompileChans(chans, i + 1, stop_pos)
    ELSE
        LET r == BaseChan_compile(chans[i], stop_pos) IN
        IF r.res # "Ok" THEN [res |-> r.res, chans |-> [chans EXCEPT ![i] = r.chan]]
        ELSE CompileChans([chans EXCEPT ![i] = r.chan], i + 1, stop_pos)

\* a device compile that never asks for the extra tick
DevStopPos_never_extend(dev, stop_tick) ==
    stop_tick

\* a device compile that asks for the extra tick whatever the last instructions are
DevStopPos_always_extend(dev, stop_tick) ==
    stop_tick + 1

\* The stop position compile_base hands to the channels
DevStopPos(dev, stop_tick) ==
    IF BaseDev_is_closing_edge_clipped(dev, stop_tick).val THEN stop_tick + 1 ELSE stop_tick

\* compile_base that leaves the check of the stop tick to the channels
BaseDev_compile_base_unchecked(dev, stop_time) ==
    IF ~BaseDev_got_instructions(dev) THEN [res |-> "Err", dev |-> dev]
    ELSE
        LET stop_tick == TimeToPos(stop_time, dev.clk_period)
            r == CompileChans(dev.chans, 1, stop_tick)
        IN  [res |-> r.res, dev |-> [dev EXCEPT !.chans = r.chans]]

BaseDev_compile_base(dev, stop_time) ==
    IF ~BaseDev_got_instructions(dev) THEN [res |-> "Err", dev |-> dev]
    ELSE
        LET stop_tick == TimeToPos(stop_time, dev.clk_period) IN
        IF stop_tick < Unwrap(BaseDev_last_instr_end_pos(dev))
        THEN [res |-> "Err", dev |-> dev]
        ELSE IF BaseDev_is_closing_edge_clipped(dev, stop_tick).res = "Panic"
        THEN [res |-> "Panic", dev |-> dev]
        ELSE
            LET r == CompileChans(dev.chans, 1, DevStopPos(dev, stop_tick)) IN
            [res |-> r.res, dev |-> [dev EXCEPT !.chans = r.chans]]

BaseDev_compile(dev, stop_time) == BaseDev_compile_base(dev, stop_time)

BaseDev_validate_compile_cache_base(dev) ==
    IF ~BaseDev_got_instructions(dev) THEN "Err"
    ELSE IF \E i \in ActiveIdx(dev) : BaseChan_validate_compile_cache(dev.chans[i]) = "Err"
    THEN "Err"
    ELSE IF \E i \in ActiveIdx(dev) : BaseChan_compiled_stop_pos(dev.chans[i]).res = "Panic"
    THEN "Panic"
    ELSE IF \E i, j \in ActiveIdx(dev) :
               BaseChan_compiled_stop_pos(dev.chans[i]).val
               # BaseChan_compiled_stop_pos(dev.chans[j]).val
    THEN "Err"
    ELSE "Ok"

BaseDev_validate_compile_cache(dev) == BaseDev_validate_compile_cache_base(dev)

BaseDev_compiled_stop_pos(dev) ==
    IF ~BaseDev_got_instructions(dev) THEN [res |-> "Panic", val |-> 0]
    ELSE IF BaseDev_validate_compile_cache(dev) # "Ok" THEN [res |-> "Panic", val |-> 0]
    ELSE BaseChan_compiled_stop_pos(
             BaseDev_active_chans(dev)[Len(BaseDev_active_chans(dev))])

BaseDev_compiled_stop_time(dev) ==
    LET p == BaseDev_compiled_stop_pos(dev) IN
    IF p.res = "Panic" THEN p
    ELSE [res |-> "Ok", val |-> PosToTime(p.val, dev.clk_period)]

\* ndarray::Array1::linspace(start, end, n): n evenly spaced points, both ends included
Linspace(start, end, n) ==
    [i \in 1..n |-> IF n = 1 THEN start ELSE start + ((i - 1) * (end - start)) \div (n - 1)]

\* The loop of calc_samps over the active channels from row chan_row_idx (0-based) on
RECURSIVE FillRows(_, _, _, _, _, _)
FillRows(active, chan_row_idx, samp_buf, start_pos, n_samps, t_arr) ==
    IF chan_row_idx >= Len(active) THEN [res |-> "Ok", samp_buf |-> samp_buf]
    ELSE
        LET lo == chan_row_idx * n_samps
            row == [i \in 1..n_samps |-> samp_buf[lo + i]]
            r == BaseChan_fill_samps(active[chan_row_idx + 1], start_pos, row, t_arr)
            filled == [i \in 1..Len(samp_buf) |->
                          IF lo < i /\ i <= lo + n_samps THEN r.res_arr[i - lo]
                          ELSE samp_buf[i]]
        IN
        IF r.res # "Ok" THEN [res |-> r.res, samp_buf |-> filled]
        ELSE FillRows(active, chan_row_idx + 1, filled, start_pos, n_samps, t_arr)

BaseDev_calc_samps(dev, samp_buf, start_pos, end_pos) ==
    IF ~BaseDev_got_instructions(dev) THEN [res |-> "Err", samp_buf |-> samp_buf]
    ELSE IF BaseDev_validate_compile_cache(dev) # "Ok"
    THEN [res |-> BaseDev_validate_compile_cache(dev), samp_buf |-> samp_buf]
    ELSE IF ~(end_pos >= start_pos + 1) THEN [res |-> "Err", samp_buf |-> samp_buf]
    ELSE IF BaseDev_compiled_stop_pos(dev).res = "Panic"
    THEN [res |-> "Panic", samp_buf |-> samp_buf]
    ELSE IF ~(end_pos <= BaseDev_compiled_stop_pos(dev).val)
    THEN [res |-> "Err", samp_buf |-> samp_buf]
    ELSE
        LET n_chans == Len(BaseDev_active_chans(dev))
            n_samps == end_pos - start_pos
        IN
        IF n_chans * n_samps > Len(samp_buf) THEN [res |-> "Err", samp_buf |-> samp_buf]
        ELSE
            LET start_t == PosToTime(start_pos, dev.clk_period)
                end_t == PosToTime(end_pos - 1, dev.clk_period)
                t_arr == Linspace(start_t, end_t, n_samps)
            IN  FillRows(BaseDev_active_chans(dev), 0, samp_buf, start_pos, n_samps, t_arr)

----------------------------------------------------------------------------
(* BaseStreamer: `ds` is the device map in insertion order *)

BaseStreamer_got_instructions(ds) ==
    \E k \in 1..Len(ds) : BaseDev_got_instructions(ds[k])

\* The indices (insertion order) of the devices that got instructions
ActiveDevIdx(ds) == {k \in 1..Len(ds) : BaseDev_got_instructions(ds[k])}

BaseStreamer_active_devs(ds) == SelectSeq(ds, BaseDev_got_instructions)

BaseStreamer_last_instr_end_time(ds) ==
    LET ends == {Unwrap(BaseDev_last_instr_end_time(ds[k])) : k \in ActiveDevIdx(ds)}
    IN  IF ends = {} THEN None ELSE Some(MaxOfSet(ends))

BaseStreamer_validate_compile_cache(ds) ==
    IF ~BaseStreamer_got_instructions(ds) THEN "Err"
    ELSE IF \E k \in ActiveDevIdx(ds) : BaseDev_validate_compile_cache(ds[k]) = "Panic"
    THEN "Panic"
    ELSE IF \E k \in ActiveDevIdx(ds) : BaseDev_validate_compile_cache(ds[k]) = "Err"
    THEN "Err"
    ELSE "Ok"

\* a total run time taken from the device that stops last
BaseStreamer_total_run_time_longest(ds) ==
    IF ~BaseStreamer_got_instructions(ds) THEN [res |-> "Panic", val |-> 0]
    ELSE IF BaseStreamer_validate_compile_cache(ds) # "Ok" THEN [res |-> "Panic", val |-> 0]
    ELSE [res |-> "Ok",
          val |-> MaxOfSet({BaseDev_compiled_stop_time(ds[k]).val : k \in ActiveDevIdx(ds)})]

BaseStreamer_total_run_time(ds) ==
    IF ~BaseStreamer_got_instructions(ds) THEN [res |-> "Panic", val |-> 0]
    ELSE IF BaseStreamer_validate_compile_cache(ds) # "Ok" THEN [res |-> "Panic", val |-> 0]
    ELSE [res |-> "Ok",
          val |-> MinOfSet({BaseDev_compiled_stop_time(ds[k]).val : k \in ActiveDevIdx(ds)})]

\* One turn of `for typed_dev in self.active_devs_mut() { dev.compile(stop_time)? }`:
\* device k keeps what its compile left, also when the compile failed
CompileDevsStep(ds, k, r) == [res |-> r.res, devs |-> [ds EXCEPT ![k] = r.dev]]

\* The loop over the active devices: the outcome after the first k devices of the map
CompileDevs(ds, stop_time) ==
    LET step[k \in 0..Len(ds)] ==
            IF k = 0 THEN [res |-> "Ok", devs |-> ds]
            ELSE IF step[k - 1].res # "Ok" THEN step[k - 1]
            ELSE IF ~BaseDev_got_instructions(ds[k]) THEN step[k - 1]
            ELSE CompileDevsStep(step[k - 1].devs, k, BaseDev_compile(ds[k], stop_time))
    IN  step[Len(ds)]

\* `Ok(self.total_run_time())` once the loop is over, or the error the loop stopped at
CompileResult(r, total) ==
    IF r.res # "Ok" THEN [res |-> r.res, val |-> 0, devs |-> r.devs]
    ELSE [res |-> total.res, val |-> total.val, devs |-> r.devs]

\* The stop time the devices are compiled to
CompileStopTime(stop_time, last_end) ==
    IF IsSome(stop_time) THEN Unwrap(stop_time) ELSE Unwrap(last_end)

\* compile(stop_time): stop_time is None or Some(seconds)
BaseStreamer_compile_to(ds, r) ==
    CompileResult(r, IF r.res = "Ok" THEN BaseStreamer_total_run_time(r.devs)
                     ELSE [res |-> r.res, val |-> 0])

\* a streamer compile that hands any stop time on to the devices
BaseStreamer_compile_checked_any_stop(ds, stop_time, last_end) ==
    BaseStreamer_compile_to(ds, CompileDevs(ds, CompileStopTime(stop_time, last_end)))

BaseStreamer_compile_checked(ds, stop_time, last_end) ==
    IF IsSome(stop_time) /\ Unwrap(stop_time) < Unwrap(last_end)
    THEN [res |-> "Err", val |-> 0, devs |-> ds]
    ELSE BaseStreamer_compile_to(ds, CompileDevs(ds, CompileStopTime(stop_time, last_end)))

BaseStreamer_compile(ds, stop_time) ==
    IF ~BaseStreamer_got_instructions(ds) THEN [res |-> "Err", val |-> 0, devs |-> ds]
    ELSE BaseStreamer_compile_checked(ds, stop_time, BaseStreamer_last_instr_end_time(ds))

BaseStreamer_clear_compile_cache(ds) ==
    [k \in 1..Len(ds) |-> BaseDev_clear_compile_cache(ds[k])]

BaseStreamer_clear_edit_cache(ds) ==
    BaseStreamer_clear_compile_cache([k \in 1..Len(ds) |-> BaseDev_clear_edit_cache(ds[k])])

\* `for typed_dev in self.devs_mut().values_mut() { dev.add_reset_instr(reset_time)? }`
RECURSIVE ResetDevs(_, _, _)
ResetDevs(ds, k, reset_time) ==
    IF k > Len(ds) THEN [res |-> "Ok", devs |-> ds]
    ELSE
        LET r == BaseDev_add_reset_instr(ds[k], reset_time) IN
        IF r.res # "Ok" THEN [res |-> r.res, devs |-> [ds EXCEPT ![k] = r.dev]]
        ELSE ResetDevs([ds EXCEPT ![k] = r.dev], k + 1, reset_time)

\* add_reset_instr(reset_time): reset_time is None or Some(seconds)
BaseStreamer_add_reset_instr(ds, reset_time) ==
    IF IsSome(reset_time)
       /\ IsSome(BaseStreamer_last_instr_end_time(ds))
       /\ Unwrap(reset_time) < Unwrap(BaseStreamer_last_instr_end_time(ds))
    THEN [res |-> "Err", devs |-> ds]
    ELSE
        LET t == IF IsSome(reset_time) THEN Unwrap(reset_time)
                 ELSE IF IsSome(BaseStreamer_last_instr_end_time(ds))
                      THEN Unwrap(BaseStreamer_last_instr_end_time(ds))
                      ELSE 0
        IN  ResetDevs(ds, 1, t)

----------------------------------------------------------------------------
(* Inputs of the operations *)

Times == 0..MaxT
Durs == (0 - 1)..MaxDur
DurSpecs == {None} \cup {<<d, keep_val>> : d \in Durs, keep_val \in BOOLEAN}
Positions == 0..MaxPos
FnLib == {ConstFn(10), LinFn(1, 0)}
ConstVals == {10}
\* constant pulses are given a positive duration or none
ConstDurSpecs == {None} \cup {<<d, keep_val>> : d \in 1..MaxDur, keep_val \in BOOLEAN}
OptTimes == {None} \cup {Some(t) : t \in Times}

\* what a sample buffer holds before calc_samps or fill_samps writes to it
Untouched == 0 - 99
FreshBuf(n) == [i \in 1..n |-> Untouched]

\* channel default and reset values
DfltVal == 0 - 1
RstVal == 0 - 2

----------------------------------------------------------------------------
(* The state machine *)

\* no call is in progress: the caller has taken the last result
NoCall == [op |-> "none", dev |-> 0, chan |-> 0, args |-> <<>>,
           res |-> "Ok", err |-> "", val |-> <<>>]

Call(op, d, c, args, res, err, val) ==
    [op |-> op, dev |-> d, chan |-> c, args |-> args, res |-> res, err |-> err, val |-> val]

\* calls are made one after another (single-threaded): a call is made when the
\* previous one has returned and its result has been taken
Idle == ret = NoCall

\* the streamers of the model hold up to two devices of up to two channels
DevIds == 1..2
ChanIds == 1..2
DevIdx == 1..Len(devs)
ChanIdx(d) == 1..Len(devs[d].chans)
\* device d, and channel c of device d, exist
IsDev(d) == d \in DevIdx
IsChan(d, c) == d \in DevIdx /\ c \in ChanIdx(d)

\* the number of instructions held by all channels of all devices
RECURSIVE SumSeq(_)
SumSeq(q) == IF q = <<>> THEN 0 ELSE Head(q) + SumSeq(Tail(q))
DevInstrs(dev) == SumSeq([i \in 1..Len(dev.chans) |-> Cardinality(dev.chans[i].instr_list)])
TotalInstrs == SumSeq([k \in 1..Len(devs) |-> DevInstrs(devs[k])])

\* the edit caches can take n more instructions within the bounds of the model
HasRoom(n) == TotalInstrs + n <= MaxInstrs

\* A streamer with one analog device of clock period 2 s holding one channel
InitChan ==
    /\ devs = <<NewDev("Dev1", "AO", 2, <<NewChan("ao0", 2, DfltVal, RstVal)>>)>>
    /\ ret = NoCall

\* A streamer with one analog device of clock period 2 s holding two channels
InitDev ==
    /\ devs = <<NewDev("Dev1", "AO", 2, <<NewChan("ao0", 2, DfltVal, RstVal),
                                           NewChan("ao1", 2, DfltVal, RstVal)>>)>>
    /\ ret = NoCall

\* A streamer with an analog device (period 2 s) and a digital device (period 3 s)
Init ==
    /\ devs = <<NewDev("Dev1", "AO", 2, <<NewChan("ao0", 2, DfltVal, RstVal)>>),
                NewDev("Dev2", "DO", 3, <<NewChan("port0/line0", 3, DfltVal, RstVal)>>)>>
    /\ ret = NoCall

\* A streamer with one analog device of clock period 1 s holding one channel
InitEdit ==
    /\ devs = <<NewDev("Dev1", "AO", 1, <<NewChan("ao0", 1, DfltVal, RstVal)>>)>>
    /\ ret = NoCall

\* A streamer with an analog device (period 2 s) of two channels and a digital
\* device (period 3 s) of one channel
InitReset ==
    /\ devs = <<NewDev("Dev1", "AO", 2, <<NewChan("ao0", 2, DfltVal, RstVal),
                                           NewChan("ao1", 2, DfltVal, RstVal)>>),
                NewDev("Dev2", "DO", 3, <<NewChan("port0/line0", 3, DfltVal, RstVal)>>)>>
    /\ ret = NoCall

(* Channel operations *)

ChanAddInstr(d, c) ==
    /\ Idle
    /\ IsChan(d, c)
    /\ HasRoom(1)
    /\ \E func \in FnLib, t \in Times, dur_spec \in DurSpecs :
        \E r \in {BaseChan_add_instr(devs[d].chans[c], func, t, dur_spec)} :
        /\ devs' = [devs EXCEPT ![d].chans[c] = r.chan]
        /\ ret' = Call("add_instr", d, c, <<func, t, dur_spec>>, r.res, r.err, <<>>)

\* add_instr as in ChanAddInstr, the edit caches taking up to MaxEditInstrs
EditAddInstr(d, c) ==
    /\ Idle
    /\ IsChan(d, c)
    /\ TotalInstrs + 1 <= MaxEditInstrs
    /\ \E func \in FnLib, t \in Times, dur_spec \in DurSpecs :
        \E r \in {BaseChan_add_instr(devs[d].chans[c], func, t, dur_spec)} :
        /\ devs' = [devs EXCEPT ![d].chans[c] = r.chan]
        /\ ret' = Call("add_instr", d, c, <<func, t, dur_spec>>, r.res, r.err, <<>>)

ChanConstant(d, c) ==
    /\ Idle
    /\ IsChan(d, c)
    /\ HasRoom(1)
    /\ \E val \in ConstVals, t \in Times, dur_spec \in ConstDurSpecs :
        \E r \in {BaseChan_constant(devs[d].chans[c], val, t, dur_spec)} :
        /\ devs' = [devs EXCEPT ![d].chans[c] = r.chan]
        /\ ret' = Call("constant", d, c, <<val, t, dur_spec>>, r.res, r.err, <<>>)

ChanAddResetInstr(d, c) ==
    /\ Idle
    /\ IsChan(d, c)
    /\ HasRoom(1)
    /\ \E reset_pos \in Positions :
        \E r \in {BaseChan_add_reset_instr(devs[d].chans[c], reset_pos)} :
        /\ devs' = [devs EXCEPT ![d].chans[c] = r.chan]
        /\ ret' = Call("add_reset_instr", d, c, <<reset_pos>>, r.res, "", <<>>)

ChanCompile(d, c) ==
    /\ Idle
    /\ IsChan(d, c)
    /\ \E stop_pos \in Positions :
        \E r \in {BaseChan_compile(devs[d].chans[c], stop_pos)} :
        /\ devs' = [devs EXCEPT ![d].chans[c] = r.chan]
        /\ ret' = Call("compile", d, c, <<stop_pos>>, r.res, "", <<>>)

ChanClearEditCache(d, c) ==
    /\ Idle
    /\ IsChan(d, c)
    /\ devs' = [devs EXCEPT ![d].chans[c] = BaseChan_clear_edit_cache(@)]
    /\ ret' = Call("clear_edit_cache", d, c, <<>>, "Ok", "", <<>>)

ChanClearCompileCache(d, c) ==
    /\ Idle
    /\ IsChan(d, c)
    /\ devs' = [devs EXCEPT ![d].chans[c] = BaseChan_clear_compile_cache(@)]
    /\ ret' = Call("clear_compile_cache", d, c, <<>>, "Ok", "", <<>>)

\* fill_samps on a window of n ticks from start_pos, with the time points the
\* device computes for that window
ChanFillSamps(d, c) ==
    /\ Idle
    /\ IsChan(d, c)
    /\ \E start_pos \in Positions, n \in 0..MaxBuf :
        LET chan == devs[d].chans[c]
            t_arr == Linspace(PosToTime(start_pos, chan.clk_period),
                              PosToTime(start_pos + n - 1, chan.clk_period), n)
            r == BaseChan_fill_samps(chan, start_pos, FreshBuf(n), t_arr)
        IN
        /\ devs' = devs
        /\ ret' = Call("fill_samps", d, c, <<start_pos, n>>, r.res, "", r.res_arr)

(* Device operations *)

DevAddResetInstr(d) ==
    /\ Idle
    /\ IsDev(d)
    /\ HasRoom(Len(devs[d].chans))
    /\ \E reset_time \in Times :
        \E r \in {BaseDev_add_reset_instr(devs[d], reset_time)} :
        /\ devs' = [devs EXCEPT ![d] = r.dev]
        /\ ret' = Call("add_reset_instr", d, 0, <<reset_time>>, r.res, "", <<>>)

DevCompile(d) ==
    /\ Idle
    /\ IsDev(d)
    /\ \E stop_time \in Times :
        \E r \in {BaseDev_compile(devs[d], stop_time)} :
        /\ devs' = [devs EXCEPT ![d] = r.dev]
        /\ ret' = Call("compile", d, 0, <<stop_time>>, r.res, "", <<>>)

DevClearEditCache(d) ==
    /\ Idle
    /\ IsDev(d)
    /\ devs' = [devs EXCEPT ![d] = BaseDev_clear_edit_cache(@)]
    /\ ret' = Call("clear_edit_cache", d, 0, <<>>, "Ok", "", <<>>)

DevClearCompileCache(d) ==
    /\ Idle
    /\ IsDev(d)
    /\ devs' = [devs EXCEPT ![d] = BaseDev_clear_compile_cache(@)]
    /\ ret' = Call("clear_compile_cache", d, 0, <<>>, "Ok", "", <<>>)

DevValidateCompileCache(d) ==
    /\ Idle
    /\ IsDev(d)
    /\ devs' = devs
    /\ ret' = Call("validate_compile_cache", d, 0, <<>>,
                   BaseDev_validate_compile_cache(devs[d]), "", <<>>)

\* calc_samps into a buffer of n untouched elements
DevCalcSamps(d) ==
    /\ Idle
    /\ IsDev(d)
    /\ \E n \in 0..MaxDevBuf, start_pos \in Positions, end \in Positions \cup {MaxPos + 1} :
        \E r \in {BaseDev_calc_samps(devs[d], FreshBuf(n), start_pos, end)} :
        /\ devs' = devs
        /\ ret' = Call("calc_samps", d, 0, <<n, start_pos, end>>, r.res, "", r.samp_buf)

(* Streamer operations *)

StreamerCompile ==
    /\ Idle
    /\ \E stop_time \in OptTimes :
        \E r \in {BaseStreamer_compile(devs, stop_time)} :
        /\ devs' = r.devs
        /\ ret' = Call("compile", 0, 0, <<stop_time>>, r.res, "", <<r.val>>)

StreamerAddResetInstr ==
    /\ Idle
    /\ HasRoom(SumSeq([k \in DevIdx |-> Len(devs[k].chans)]))
    /\ \E reset_time \in OptTimes :
        \E r \in {BaseStreamer_add_reset_instr(devs, reset_time)} :
        /\ devs' = r.devs
        /\ ret' = Call("add_reset_instr", 0, 0, <<reset_time>>, r.res, "", <<>>)

\* add_reset_instr as in StreamerAddResetInstr, on edit caches that hold up to
\* MaxInstrs instructions before the call
StreamerResetAfterEdits ==
    /\ Idle
    /\ TotalInstrs <= MaxInstrs
    /\ \E reset_time \in OptTimes :
        \E r \in {BaseStreamer_add_reset_instr(devs, reset_time)} :
        /\ devs' = r.devs
        /\ ret' = Call("add_reset_instr", 0, 0, <<reset_time>>, r.res, "", <<>>)

StreamerClearEditCache ==
    /\ Idle
    /\ devs' = BaseStreamer_clear_edit_cache(devs)
    /\ ret' = Call("clear_edit_cache", 0, 0, <<>>, "Ok", "", <<>>)

StreamerClearCompileCache ==
    /\ Idle
    /\ devs' = BaseStreamer_clear_compile_cache(devs)
    /\ ret' = Call("clear_compile_cache", 0, 0, <<>>, "Ok", "", <<>>)

\* the caller takes the result of the call
Return ==
    /\ ~Idle
    /\ devs' = devs
    /\ ret' = NoCall

\* one channel: every channel operation
ChanNext ==
    \/ \E d \in DevIds, c \in ChanIds : ChanAddInstr(d, c)
    \/ \E d \in DevIds, c \in ChanIds : ChanConstant(d, c)
    \/ \E d \in DevIds, c \in ChanIds : ChanAddResetInstr(d, c)
    \/ \E d \in DevIds, c \in ChanIds : ChanCompile(d, c)
    \/ \E d \in DevIds, c \in ChanIds : ChanClearEditCache(d, c)
    \/ \E d \in DevIds, c \in ChanIds : ChanClearCompileCache(d, c)
    \/ \E d \in DevIds, c \in ChanIds : ChanFillSamps(d, c)
    \/ Return

\* one device: its channels are edited with constant pulses and compiled on their
\* own or together, and the device operations act on all of them
DevNext ==
    \/ \E d \in DevIds, c \in ChanIds : ChanConstant(d, c)
    \/ \E d \in DevIds, c \in ChanIds : ChanCompile(d, c)
    \/ \E d \in DevIds : DevAddResetInstr(d)
    \/ \E d \in DevIds : DevCompile(d)
    \/ \E d \in DevIds : DevClearEditCache(d)
    \/ \E d \in DevIds : DevClearCompileCache(d)
    \/ \E d \in DevIds : DevValidateCompileCache(d)
    \/ Return

\* one device that is edited, compiled and asked for samples
SampsNext ==
    \/ \E d \in DevIds, c \in ChanIds : ChanConstant(d, c)
    \/ \E d \in DevIds : DevAddResetInstr(d)
    \/ \E d \in DevIds : DevCompile(d)
    \/ \E d \in DevIds : DevClearEditCache(d)
    \/ \E d \in DevIds : DevValidateCompileCache(d)
    \/ \E d \in DevIds : DevCalcSamps(d)
    \/ \E d \in DevIds, c \in ChanIds : ChanFillSamps(d, c)
    \/ Return

\* one device that is edited, compiled and asked for samples through calc_samps alone
CalcNext ==
    \/ \E d \in DevIds, c \in ChanIds : ChanConstant(d, c)
    \/ \E d \in DevIds : DevAddResetInstr(d)
    \/ \E d \in DevIds : DevCompile(d)
    \/ \E d \in DevIds : DevClearEditCache(d)
    \/ \E d \in DevIds : DevCalcSamps(d)
    \/ Return

\* the streamer: channels are edited with constant pulses, devices are compiled on
\* their own or together, and the streamer operations act on all devices
Next ==
    \/ \E d \in DevIds, c \in ChanIds : ChanConstant(d, c)
    \/ \E d \in DevIds : DevCompile(d)
    \/ StreamerCompile
    \/ StreamerAddResetInstr
    \/ StreamerClearEditCache
    \/ StreamerClearCompileCache
    \/ Return

\* the streamer is edited with constant pulses and reset
ResetNext ==
    \/ \E d \in DevIds, c \in ChanIds : ChanConstant(d, c)
    \/ StreamerResetAfterEdits
    \/ StreamerClearEditCache
    \/ Return

SpecReset == InitReset /\ [][ResetNext]_vars

\* channels are edited, devices are compiled, and the caches are cleared at the
\* level of a channel, a device or the streamer
ClearNext ==
    \/ \E d \in DevIds, c \in ChanIds : ChanConstant(d, c)
    \/ \E d \in DevIds : DevCompile(d)
    \/ \E d \in DevIds, c \in ChanIds : ChanClearEditCache(d, c)
    \/ \E d \in DevIds, c \in ChanIds : ChanClearCompileCache(d, c)
    \/ \E d \in DevIds : DevClearEditCache(d)
    \/ \E d \in DevIds : DevClearCompileCache(d)
    \/ StreamerClearEditCache
    \/ StreamerClearCompileCache
    \/ Return

SpecClear == InitReset /\ [][ClearNext]_vars

\* the streamer with an analog and a digital device
Spec == Init /\ [][Next]_vars
\* one device with two channels
SpecDev == InitDev /\ [][DevNext]_vars
\* one device with two channels, with the sample requests
SpecSamps == InitDev /\ [][SampsNext]_vars
SpecCalc == InitDev /\ [][CalcNext]_vars
\* one channel
SpecChan == InitChan /\ [][ChanNext]_vars

\* The edit operations of a channel alone
EditNext ==
    \/ \E d \in DevIds, c \in ChanIds : EditAddInstr(d, c)
    \/ \E d \in DevIds, c \in ChanIds : ChanClearEditCache(d, c)
    \/ Return

SpecEdit == InitEdit /\ [][EditNext]_vars

\* Every operation that writes to a channel, at the level of the channel, its device
\* and the streamer
AllNext ==
    \/ \E d \in DevIds, c \in ChanIds : ChanAddInstr(d, c)
    \/ \E d \in DevIds, c \in ChanIds : ChanConstant(d, c)
    \/ \E d \in DevIds, c \in ChanIds : ChanAddResetInstr(d, c)
    \/ \E d \in DevIds, c \in ChanIds : ChanCompile(d, c)
    \/ \E d \in DevIds, c \in ChanIds : ChanClearEditCache(d, c)
    \/ \E d \in DevIds, c \in ChanIds : ChanClearCompileCache(d, c)
    \/ \E d \in DevIds : DevAddResetInstr(d)
    \/ \E d \in DevIds : DevCompile(d)
    \/ \E d \in DevIds : DevClearEditCache(d)
    \/ \E d \in DevIds : DevClearCompileCache(d)
    \/ StreamerCompile
    \/ StreamerAddResetInstr
    \/ StreamerClearEditCache
    \/ StreamerClearCompileCache
    \/ Return

SpecAll == InitChan /\ [][AllNext]_vars

\* A streamer with one analog device at 10 MHz holding one channel, the unit of time
\* being the clock period of 100 ns
InitTenMHz ==
    /\ devs = <<NewDev("Dev1", "AO", 1, <<NewChan("ao0", 1, DfltVal, RstVal)>>)>>
    /\ ret = NoCall

\* 0.5 s and 1.0 s, and the durations 0.5 s, 0.5000001 s and 0.5001 s, in units of 100 ns
TenMHzTimes == {5000000, 10000000}
TenMHzDurSpecs == {<<dur, keep_val>> : dur \in {5000000, 5000001, 5001000}, keep_val \in BOOLEAN}

\* add_instr at half a second or a second, for about half a second
TenMHzAddInstr(d, c) ==
    /\ Idle
    /\ IsChan(d, c)
    /\ TotalInstrs + 1 <= MaxEditInstrs
    /\ \E func \in FnLib, t \in TenMHzTimes, dur_spec \in TenMHzDurSpecs :
        \E r \in {BaseChan_add_instr(devs[d].chans[c], func, t, dur_spec)} :
        /\ devs' = [devs EXCEPT ![d].chans[c] = r.chan]
        /\ ret' = Call("add_instr", d, c, <<func, t, dur_spec>>, r.res, r.err, <<>>)

\* The edit operations of a channel at 10 MHz
TenMHzNext ==
    \/ \E d \in DevIds, c \in ChanIds : TenMHzAddInstr(d, c)
    \/ \E d \in DevIds, c \in ChanIds : ChanClearEditCache(d, c)
    \/ Return

SpecTenMHz == InitTenMHz /\ [][TenMHzNext]_vars

----------------------------------------------------------------------------
(* Registration of devices and channels *)

\* The tolerance 1e-10 Hz of check_can_add_chan, in units of 0.5e-10 Hz
RateTol == 2

\* A channel as its constructor leaves it, built for the sample rate
\* 1/clk_period Hz + rate_off * 0.5e-10 Hz
NewChanAt(name, clk_period, rate_off) ==
    [name |-> name, clk_period |-> clk_period, rate_off |-> rate_off,
     dflt_val |-> DfltVal, rst_val |-> RstVal,
     instr_list |-> {},
     compile_cache_ends |-> <<>>, compile_cache_fns |-> <<>>,
     is_fresh_compiled |-> TRUE]

\* f64::abs(chan.samp_rate() - dev.samp_rate()) >= 1e-10, the device running at
\* 1/clk_period Hz: the rates of two distinct whole-second periods of the model
\* are at least 1/6 Hz apart, those of one period are rate_off units apart
SampRateDiffers(dev, chan) ==
    IF chan.clk_period # dev.clk_period THEN TRUE
    ELSE (IF chan.rate_off < 0 THEN 0 - chan.rate_off ELSE chan.rate_off) >= RateTol

\* the check that only looks at the names
BaseDev_check_can_add_chan_name_only(dev, chan) ==
    IF \E i \in 1..Len(dev.chans) : dev.chans[i].name = chan.name
    THEN [res |-> "Err", err |-> "NameTaken"]
    ELSE [res |-> "Ok", err |-> ""]

BaseDev_check_can_add_chan(dev, chan) ==
    IF SampRateDiffers(dev, chan)
    THEN [res |-> "Err", err |-> "SampRate"]
    ELSE IF \E i \in 1..Len(dev.chans) : dev.chans[i].name = chan.name
    THEN [res |-> "Err", err |-> "NameTaken"]
    ELSE [res |-> "Ok", err |-> ""]

\* add_channel of a device: the channel is registered last when the check passes
BaseDev_add_channel(dev, chan) ==
    LET r == BaseDev_check_can_add_chan(dev, chan)
    IN  [res |-> r.res, err |-> r.err,
         dev |-> IF r.res = "Ok" THEN [dev EXCEPT !.chans = Append(@, chan)] ELSE dev]

BaseStreamer_add_ao_dev(ds, dev) ==
    IF \E k \in 1..Len(ds) : ds[k].name = dev.name
    THEN [res |-> "Err", devs |-> ds]
    ELSE [res |-> "Ok", devs |-> Append(ds, [dev EXCEPT !.variant = "AO"])]

\* add_do_dev looking for the name among the digital devices only
BaseStreamer_add_do_dev_same_variant(ds, dev) ==
    IF \E k \in 1..Len(ds) : ds[k].variant = "DO" /\ ds[k].name = dev.name
    THEN [res |-> "Err", devs |-> ds]
    ELSE [res |-> "Ok", devs |-> Append(ds, [dev EXCEPT !.variant = "DO"])]

BaseStreamer_add_do_dev(ds, dev) ==
    IF \E k \in 1..Len(ds) : ds[k].name = dev.name
    THEN [res |-> "Err", devs |-> ds]
    ELSE [res |-> "Ok", devs |-> Append(ds, [dev EXCEPT !.variant = "DO"])]

\* the names, clock periods and rate offsets the registrations are tried with
DevNames == {"Dev1", "Dev2"}
ChanNames == {"ao0", "ao1"}
ClkPeriods == {2, 3}
RateOffs == {0 - RateTol, 0 - 1, 0, 1, RateTol}

\* A streamer as its constructor leaves it: no device
InitReg ==
    /\ devs = <<>>
    /\ ret = NoCall

\* registrations are tried until one more than the names allow have been made
StreamerAddAoDev ==
    /\ Idle
    /\ Len(devs) <= Cardinality(DevNames)
    /\ \E name \in DevNames, clk_period \in ClkPeriods :
        \E r \in {BaseStreamer_add_ao_dev(devs, NewDev(name, "AO", clk_period, <<>>))} :
        /\ devs' = r.devs
        /\ ret' = Call("add_ao_dev", 0, 0, <<name, clk_period>>, r.res, "", <<>>)

StreamerAddDoDev ==
    /\ Idle
    /\ Len(devs) <= Cardinality(DevNames)
    /\ \E name \in DevNames, clk_period \in ClkPeriods :
        \E r \in {BaseStreamer_add_do_dev(devs, NewDev(name, "DO", clk_period, <<>>))} :
        /\ devs' = r.devs
        /\ ret' = Call("add_do_dev", 0, 0, <<name, clk_period>>, r.res, "", <<>>)

DevAddChannel(d) ==
    /\ Idle
    /\ IsDev(d)
    /\ Len(devs[d].chans) <= Cardinality(ChanNames)
    /\ \E name \in ChanNames, clk_period \in ClkPeriods, rate_off \in RateOffs :
        \E r \in {BaseDev_add_channel(devs[d], NewChanAt(name, clk_period, rate_off))} :
        /\ devs' = [devs EXCEPT ![d] = r.dev]
        /\ ret' = Call("add_channel", d, 0, <<name, clk_period, rate_off>>, r.res, r.err, <<>>)

\* The registrations of a streamer
RegNext ==
    \/ StreamerAddAoDev
    \/ StreamerAddDoDev
    \/ \E d \in DevIds : DevAddChannel(d)
    \/ Return

SpecReg == InitReg /\ [][RegNext]_vars

----------------------------------------------------------------------------
(* Properties *)

\* The channel the last channel-level call was made on
RetChan == devs[ret.dev].chans[ret.chan]
\* The device the last device-level call was made on
RetDev == devs[ret.dev]
OnChan(op) == ret.op = op /\ ret.dev # 0 /\ ret.chan # 0
OnDev(op) == ret.op = op /\ ret.dev # 0 /\ ret.chan = 0
OnStreamer(op) == ret.op = op /\ ret.dev = 0 /\ ret.chan = 0
AllChans == {<<d, c>> \in DevIds \X ChanIds : IsChan(d, c)}

\* C1: after every successful Channel.compile(stop_pos) the compile cache holds as
\* many ends as functions, the ends are strictly ascending, the first end is above
\* 0 and the last end is stop_pos
C1_CompileCoversToStopPos ==
    (OnChan("compile") /\ ret.res = "Ok") =>
        LET ends == RetChan.compile_cache_ends IN
        /\ Len(ends) = Len(RetChan.compile_cache_fns)
        /\ Len(ends) >= 1
        /\ \A i \in 1..(Len(ends) - 1) : ends[i] < ends[i + 1]
        /\ ends[1] > 0
        /\ ends[Len(ends)] = ret.args[1]

\* a successful compile of two instructions with a leading padding, a gap and a
\* trailing stretch
C1_Witness ==
    /\ OnChan("compile") /\ ret.res = "Ok"
    /\ Cardinality(RetChan.instr_list) = 2
    /\ FirstInstr(RetChan.instr_list).start_pos > 0
    /\ Len(RetChan.compile_cache_ends) >= 3

\* The edit cache of a channel is a set of disjoint non-empty tick intervals
DisjointIntervals(chan) ==
    /\ \A a, b \in chan.instr_list : a.start_pos = b.start_pos => a = b
    /\ \A a \in chan.instr_list :
        IsSome(a.end_spec) => a.start_pos + 1 <= Unwrap(Instr_end_pos(a))
    /\ \A a, b \in chan.instr_list :
        (/\ a.start_pos < b.start_pos
         /\ ~\E m \in chan.instr_list : a.start_pos < m.start_pos /\ m.start_pos < b.start_pos)
        => Instr_eff_end_pos(a) <= b.start_pos

\* C2: in every state reachable through add_instr, constant, add_reset_instr, clear
\* and compile calls on a channel, successful or failing, the instructions of the
\* edit cache have distinct start positions, a specified end is at least one tick
\* after the start, and each instruction's effective end is at or before the start
\* of the next one
C2_EditCacheDisjoint ==
    \A dc \in AllChans : DisjointIntervals(devs[dc[1]].chans[dc[2]])

\* an instruction was inserted next to another after being trimmed by one tick at
\* its start
C2_Witness ==
    /\ OnChan("add_instr") /\ ret.res = "Ok"
    /\ Cardinality(RetChan.instr_list) = 2
    /\ IsSome(ret.args[3])
    /\ \E a \in RetChan.instr_list :
        /\ a.start_pos = TimeToPos(ret.args[2], RetChan.clk_period) + 1
        /\ Instr_eff_end_pos(FirstInstr(RetChan.instr_list)) = a.start_pos
    /\ ~\E a \in RetChan.instr_list :
        a.start_pos = TimeToPos(ret.args[2], RetChan.clk_period)

\* The compile cache of a channel is what compile makes of its edit cache for the
\* cached stop position, or both caches are empty
Reflects(chan) ==
    IF chan.instr_list = {}
    THEN chan.compile_cache_ends = <<>> /\ chan.compile_cache_fns = <<>>
    ELSE /\ chan.compile_cache_ends # <<>>
         /\ LET stop_pos == chan.compile_cache_ends[Len(chan.compile_cache_ends)]
                again == BaseChan_compile(chan, stop_pos)
            IN  /\ again.res = "Ok"
                /\ again.chan.compile_cache_ends = chan.compile_cache_ends
                /\ again.chan.compile_cache_fns = chan.compile_cache_fns

\* C3: in every state reachable through add_instr, constant, add_reset_instr,
\* compile, clear_edit_cache and clear_compile_cache on a channel, is_fresh_compiled
\* is true exactly when the compile cache reflects the edit cache, and a channel
\* that is fresh with an empty compile cache has an empty edit cache
C3_FreshIffReflects ==
    \A dc \in AllChans :
        LET chan == devs[dc[1]].chans[dc[2]] IN
        /\ chan.is_fresh_compiled <=> Reflects(chan)
        /\ (chan.is_fresh_compiled /\ chan.compile_cache_ends = <<>>)
            => chan.instr_list = {}

\* C4: in every state reachable through the edit, compile and clear operations,
\* calc_samps with any buffer, start_pos and end_pos returns Ok or Err and does not
\* panic, and neither do fill_samps and validate_compile_cache
C4_SampsNeverPanic ==
    ret.op \in {"calc_samps", "fill_samps", "validate_compile_cache"}
        => ret.res \in {"Ok", "Err"}

\* The devices whose channels the last call may have edited
EditedDevs ==
    IF ret.dev # 0 THEN {ret.dev} ELSE DevIdx

\* The last call changed the edit cache of an active channel of device d
EditedOk(d) ==
    /\ ret.op \in {"add_instr", "constant", "add_reset_instr"}
    /\ ret.res = "Ok"
    /\ d \in EditedDevs
    /\ BaseDev_got_instructions(devs[d])

\* C5: when the edit cache of an active channel was changed by a successful
\* add_instr, constant or add_reset_instr on the channel, the device or the
\* streamer, and the channel was not compiled since, calc_samps on the device
\* returns an error and leaves the buffer as it was
C5_StaleCalcSampsFails ==
    \A d \in DevIdx :
        EditedOk(d) =>
            \A n \in 0..MaxDevBuf, start_pos \in Positions, end \in Positions \cup {MaxPos + 1} :
                LET r == BaseDev_calc_samps(devs[d], FreshBuf(n), start_pos, end) IN
                r.res = "Err" /\ r.samp_buf = FreshBuf(n)

\* The last end of the compile cache of a channel
LastEnd(chan) == chan.compile_cache_ends[Len(chan.compile_cache_ends)]

\* C6: after every successful Device.compile all active channels report the same
\* compiled_stop_pos, the device's compiled_stop_pos is that value and
\* validate_compile_cache returns Ok; channels with an empty edit cache have an empty
\* compile cache
C6_DeviceUniformStop ==
    (OnDev("compile") /\ ret.res = "Ok") =>
        /\ \A i, j \in ActiveIdx(RetDev) :
            /\ BaseChan_compiled_stop_pos(RetDev.chans[i]).res = "Ok"
            /\ BaseChan_compiled_stop_pos(RetDev.chans[i])
                = BaseChan_compiled_stop_pos(RetDev.chans[j])
            /\ BaseDev_compiled_stop_pos(RetDev)
                = [res |-> "Ok", val |-> LastEnd(RetDev.chans[i])]
        /\ BaseDev_validate_compile_cache(RetDev) = "Ok"
        /\ \A i \in 1..Len(RetDev.chans) :
            RetDev.chans[i].instr_list = {} =>
                /\ RetDev.chans[i].compile_cache_ends = <<>>
                /\ RetDev.chans[i].compile_cache_fns = <<>>

\* a device compile of two active channels whose last instructions end at different
\* ticks
C6_Witness ==
    /\ OnDev("compile") /\ ret.res = "Ok"
    /\ Len(RetDev.chans) = 2
    /\ \A i \in 1..2 : RetDev.chans[i].instr_list # {}
    /\ BaseChan_last_instr_end_pos(RetDev.chans[1])
        # BaseChan_last_instr_end_pos(RetDev.chans[2])

\* Some channel's last instruction has a specified end at tick S
ExplicitEndAt(dev, S) ==
    \E i \in 1..Len(dev.chans) :
        /\ dev.chans[i].instr_list # {}
        /\ \E a \in dev.chans[i].instr_list :
            /\ \A b \in dev.chans[i].instr_list : b.start_pos <= a.start_pos
            /\ a.end_spec # <<>>
            /\ a.end_spec[1] = S

\* C7: after a successful Device.compile(stop_time) with S = round(stop_time *
\* samp_rate), compiled_stop_pos is S + 1 if the last instruction of some channel
\* has a specified end equal to S, and S otherwise (so also when a last go-this
\* instruction has its effective end at S, and when an earlier compile was extended)
C7_ClosingEdgeExtension ==
    (OnDev("compile") /\ ret.res = "Ok") =>
        LET S == Round(ret.args[1], RetDev.clk_period) IN
        BaseDev_compiled_stop_pos(RetDev).val
            = IF ExplicitEndAt(RetDev, S) THEN S + 1 ELSE S

\* a compile whose stop tick is the specified end of a last instruction
C7_Witness ==
    /\ OnDev("compile") /\ ret.res = "Ok"
    /\ ExplicitEndAt(RetDev, Round(ret.args[1], RetDev.clk_period))
    /\ BaseDev_compiled_stop_pos(RetDev).val = Round(ret.args[1], RetDev.clk_period) + 1

\* The end times, in seconds, of all instructions of all devices
EndTimes(ds) ==
    UNION {UNION {{Instr_eff_end_pos(a) * ds[k].clk_period : a \in ds[k].chans[i].instr_list}
                  : i \in 1..Len(ds[k].chans)}
           : k \in 1..Len(ds)}
\* Device k holds an instruction
HasInstr(ds, k) == \E i \in 1..Len(ds[k].chans) : ds[k].chans[i].instr_list # {}
\* The stop times, in seconds, of the compile caches of the devices that hold
\* instructions
StopTimes(ds) ==
    {LastEnd(ds[k].chans[i]) * ds[k].clk_period :
        <<k, i>> \in {ki \in AllChans : ds[ki[1]].chans[ki[2]].instr_list # {}}}
\* The stop time a streamer compile called with `arg` is to compile to
AskedStop(ds, arg) == IF arg # <<>> THEN arg[1] ELSE MaxOfSet(EndTimes(ds))

\* C8: a successful Streamer.compile(stop_time) compiles every device that holds
\* instructions, of either variant, with the same stop time, leaves the other devices
\* as they were, and returns the least compiled stop time of the compiled devices
C8_StreamerCompilesActiveDevs ==
    [][(Idle /\ ret'.op = "compile" /\ ret'.dev = 0 /\ ret'.res = "Ok") =>
        /\ \A k \in DevIdx :
            IF HasInstr(devs, k)
            THEN /\ BaseDev_compile(devs[k], AskedStop(devs, ret'.args[1])).res = "Ok"
                 /\ devs'[k] = BaseDev_compile(devs[k], AskedStop(devs, ret'.args[1])).dev
            ELSE devs'[k] = devs[k]
        /\ ret'.val = <<MinOfSet(StopTimes(devs'))>>
      ]_vars

\* a streamer compile of an analog and a digital device that stop at different times
C8_Witness ==
    /\ OnStreamer("compile") /\ ret.res = "Ok"
    /\ \A k \in DevIdx : HasInstr(devs, k)
    /\ {devs[k].variant : k \in DevIdx} = {"AO", "DO"}
    /\ Cardinality(StopTimes(devs)) = 2

\* After a successful Streamer.compile(s) every device that holds instructions has
\* s <= compiled_stop_time <= s + clk_period
C9_StopWithinOnePeriodAbove ==
    (OnStreamer("compile") /\ ret.res = "Ok") =>
        \A k \in DevIdx :
            HasInstr(devs, k) =>
                LET s == AskedStop(devs, ret.args[1])
                    stop == BaseDev_compiled_stop_time(devs[k]).val
                IN  s <= stop /\ stop <= s + devs[k].clk_period

\* C9: after a successful Streamer.compile(s) every device that holds instructions
\* has s - clk_period/2 < compiled_stop_time <= s + clk_period, with its own
\* clk_period, also for s off the device's tick grid
C9_StopWithinRounding ==
    (OnStreamer("compile") /\ ret.res = "Ok") =>
        \A k \in DevIdx :
            HasInstr(devs, k) =>
                LET s == AskedStop(devs, ret.args[1])
                    stop == BaseDev_compiled_stop_time(devs[k]).val
                IN  2 * s < 2 * stop + devs[k].clk_period /\ stop <= s + devs[k].clk_period

\* a streamer compile to a stop time that a device rounded down to its tick grid
C9_Witness ==
    /\ OnStreamer("compile") /\ ret.res = "Ok"
    /\ \A k \in DevIdx : HasInstr(devs, k)
    /\ \E k \in DevIdx :
        BaseDev_compiled_stop_time(devs[k]).val < AskedStop(devs, ret.args[1])
    /\ \E k \in DevIdx :
        BaseDev_compiled_stop_time(devs[k]).val
            = AskedStop(devs, ret.args[1]) + devs[k].clk_period

\* C10: Streamer.compile returns Err and leaves every device as it was when no
\* device holds instructions or when stop_time = Some(s) with s below the greatest
\* last-instruction end time of the devices; with stop_time = None and a device
\* holding instructions it succeeds and compiles to that end time
C10_StreamerCompileErrors ==
    [][(Idle /\ ret'.op = "compile" /\ ret'.dev = 0) =>
        /\ (\A k \in DevIdx : ~HasInstr(devs, k))
            => (ret'.res = "Err" /\ devs' = devs)
        /\ ((\E k \in DevIdx : HasInstr(devs, k))
            /\ ret'.args[1] # <<>> /\ ret'.args[1][1] < MaxOfSet(EndTimes(devs)))
            => (ret'.res = "Err" /\ devs' = devs)
        /\ ((\E k \in DevIdx : HasInstr(devs, k)) /\ ret'.args[1] = <<>>)
            => /\ ret'.res = "Ok"
               /\ \A k \in DevIdx :
                    HasInstr(devs, k) =>
                        devs'[k] = BaseDev_compile(devs[k], MaxOfSet(EndTimes(devs))).dev
      ]_vars

\* a streamer compile refused for a stop time below the end of the last instruction,
\* with a compiled device left as it was
C10_Witness ==
    /\ OnStreamer("compile") /\ ret.res = "Err"
    /\ ret.args[1] # <<>>
    /\ EndTimes(devs) # {}
    /\ ret.args[1][1] < MaxOfSet(EndTimes(devs))
    /\ \E dc \in AllChans :
        /\ devs[dc[1]].chans[dc[2]].is_fresh_compiled
        /\ devs[dc[1]].chans[dc[2]].compile_cache_ends # <<>>

\* C11: for a channel whose compile cache is what compile makes of its current edit
\* cache, the sample fill_samps writes for a tick k of the window is the value
\* eval_point(k / samp_rate) reads from the edit cache
C11_EvalPointMatchesFillSamps ==
    (OnChan("fill_samps") /\ ret.res = "Ok"
        /\ RetChan.is_fresh_compiled /\ Reflects(RetChan)) =>
        \A i \in 1..ret.args[2] :
            LET k == ret.args[1] + i - 1
                point == BaseChan_eval_point(RetChan, k * RetChan.clk_period)
            IN  point.res = "Ok" /\ ret.val[i] = point.val

\* a window of samples over the leading default value, a ramp and the padding behind
\* it
C11_Witness ==
    /\ OnChan("fill_samps") /\ ret.res = "Ok"
    /\ RetChan.is_fresh_compiled /\ Reflects(RetChan)
    /\ ret.args = <<0, 3>>
    /\ \E a \in RetChan.instr_list :
        /\ a.func.kind = "LinFn"
        /\ a.start_pos = 1
        /\ a.end_spec # <<>> /\ a.end_spec[1] = 2
    /\ Cardinality(RetChan.instr_list) = 1

\* A channel with the edit cache of `chan` that was never compiled
NeverCompiled(chan) ==
    [chan EXCEPT !.compile_cache_ends = <<>>,
                 !.compile_cache_fns = <<>>,
                 !.is_fresh_compiled = FALSE]

\* C12: the compile cache after a successful compile(s) is the one compile(s) makes
\* of the same edit cache on a channel that was never compiled, whatever the compile
\* cache was before the call, and a second compile(s) right after leaves it as it is
C12_CompileIdempotent ==
    [][(Idle /\ ret'.op = "compile" /\ ret'.chan # 0 /\ ret'.res = "Ok") =>
        LET before == devs[ret'.dev].chans[ret'.chan]
            after == devs'[ret'.dev].chans[ret'.chan]
            afresh == BaseChan_compile(NeverCompiled(before), ret'.args[1])
            again == BaseChan_compile(after, ret'.args[1])
        IN  /\ afresh.res = "Ok"
            /\ after.compile_cache_ends = afresh.chan.compile_cache_ends
            /\ after.compile_cache_fns = afresh.chan.compile_cache_fns
            /\ again.res = "Ok"
            /\ again.chan = after
      ]_vars

\* a compile of two instructions to a stop position past the last end
C12_Witness ==
    /\ OnChan("compile") /\ ret.res = "Ok"
    /\ Cardinality(RetChan.instr_list) = 2
    /\ ret.args[1] > Unwrap(BaseChan_last_instr_end_pos(RetChan))
    /\ Len(RetChan.compile_cache_ends) >= 3
    /\ \E a \in RetChan.instr_list : a.end_spec = <<>>

\* A caller's buffer of n elements with other prior contents than FreshBuf(n)
UsedBuf(n) == [i \in 1..n |-> Untouched + 1]

\* C13: calc_samps leaves every channel of the device as it was, and a second call
\* with the same window on a buffer of the same length but other prior contents has
\* the same outcome, writes the same elements and writes the same values to them;
\* after Ok the two buffers agree on the whole region of n_active * n_samps elements
C13_CalcSampsDeterministic ==
    [][(Idle /\ ret'.op = "calc_samps") =>
        /\ devs' = devs
        /\ \E dev \in {devs'[ret'.dev]}, first \in {ret'.val},
              used \in {UsedBuf(ret'.args[1])},
              start_pos \in {ret'.args[2]}, end_pos \in {ret'.args[3]} :
           \E second \in {BaseDev_calc_samps(dev, used, start_pos, end_pos)},
              region \in {IF ret'.res = "Ok"
                          THEN Len(BaseDev_active_chans(dev)) * (end_pos - start_pos)
                          ELSE 0} :
            /\ second.res = ret'.res
            /\ Len(second.samp_buf) = Len(first)
            /\ \A i \in 1..Len(first) :
                /\ (first[i] = Untouched) <=> (second.samp_buf[i] = used[i])
                /\ first[i] # Untouched => second.samp_buf[i] = first[i]
                /\ i <= region => second.samp_buf[i] = first[i]
      ]_vars

\* a window over two channels that touches several compile cache entries of each
C13_Witness ==
    /\ OnDev("calc_samps") /\ ret.res = "Ok"
    /\ Len(BaseDev_active_chans(RetDev)) = 2
    /\ ret.args[1] = 3 /\ ret.args[2] = 0 /\ ret.args[3] = 1
    /\ ret.val[1] # ret.val[2]
    /\ ret.val[3] = Untouched
    /\ Len(RetDev.chans[1].compile_cache_ends) >= 2

\* Index in dev.chans of the k-th (0-based) channel with instructions
KthActive(dev, k) ==
    CHOOSE i \in ActiveIdx(dev) : Cardinality({j \in ActiveIdx(dev) : j < i}) = k

\* The value the compile cache of `chan` gives for tick p at time p * clk_period
SampleAt(chan, p, clk_period) ==
    LET j == CHOOSE j \in 1..Len(chan.compile_cache_ends) :
                 /\ chan.compile_cache_ends[j] > p
                 /\ \A l \in 1..(j - 1) : chan.compile_cache_ends[l] <= p
    IN  Calc(chan.compile_cache_fns[j], PosToTime(p, clk_period))

\* C14: with a valid compile cache, start_pos + 1 <= end_pos <= compiled_stop_pos
\* and a buffer of at least n_active * n elements, n = end_pos - start_pos,
\* calc_samps returns Ok, element k * n + m of the buffer is the sample of the k-th
\* channel with instructions at tick start_pos + m, and the elements from
\* n_active * n on are as the caller left them
C14_RowMajorLayout ==
    (/\ OnDev("calc_samps")
     /\ BaseDev_validate_compile_cache(RetDev) = "Ok"
     /\ ret.args[2] + 1 <= ret.args[3]
     /\ ret.args[3] <= BaseDev_compiled_stop_pos(RetDev).val
     /\ ret.args[1] >= Cardinality(ActiveIdx(RetDev)) * (ret.args[3] - ret.args[2])) =>
        LET n == ret.args[3] - ret.args[2]
            n_active == Cardinality(ActiveIdx(RetDev))
        IN  /\ ret.res = "Ok"
            /\ Len(ret.val) = ret.args[1]
            /\ \A i \in 1..Len(ret.val) :
                ret.val[i] =
                    IF i <= n_active * n
                    THEN SampleAt(RetDev.chans[KthActive(RetDev, (i - 1) \div n)],
                                  ret.args[2] + ((i - 1) % n), RetDev.clk_period)
                    ELSE Untouched

\* two rows of two samples: a ramp on the first channel, a constant on the second
C14_Witness ==
    /\ OnDev("calc_samps") /\ ret.res = "Ok"
    /\ BaseDev_validate_compile_cache(RetDev) = "Ok"
    /\ Cardinality(ActiveIdx(RetDev)) = 2
    /\ ret.args = <<4, 0, 2>>
    /\ ret.val[1] # ret.val[2]
    /\ ret.val[2] # ret.val[3]
    /\ ret.val[3] = ret.val[4]

\* C15: calc_samps returns Err and leaves the buffer as the caller passed it when the
\* device has no instructions, when end_pos < start_pos + 1, when end_pos is above
\* the compiled stop position, or when the buffer has fewer than
\* n_active * (end_pos - start_pos) elements
C15_CalcSampsRejects ==
    (/\ OnDev("calc_samps")
     /\ \/ ~BaseDev_got_instructions(RetDev)
        \/ ret.args[3] < ret.args[2] + 1
        \/ /\ BaseDev_validate_compile_cache(RetDev) = "Ok"
           /\ ret.args[3] > BaseDev_compiled_stop_pos(RetDev).val
        \/ /\ ret.args[3] >= ret.args[2] + 1
           /\ ret.args[1] < Cardinality(ActiveIdx(RetDev)) * (ret.args[3] - ret.args[2]))
        => (ret.res = "Err" /\ ret.val = FreshBuf(ret.args[1]))

(* add_instr(func, t, dur_spec) on a channel `chan`, args = <<func, t, dur_spec>>:
   the ticks asked for and the neighbours in the edit cache before the call *)

AskedStart(chan, args) == TimeToPos(args[2], chan.clk_period)
AskedEnd(chan, args) == TimeToPos(args[2] + args[3][1], chan.clk_period)
\* the call passes the sanity checks on t and on the rounded pulse length
AskedWellFormed(chan, args) ==
    /\ args[2] >= 0
    /\ args[3] # None => AskedEnd(chan, args) - AskedStart(chan, args) >= 1

\* the instruction of `list` with the greatest start_pos below `start`, if any
PrevOf(list, start) ==
    {i \in list : /\ i.start_pos < start
                  /\ \A j \in list : j.start_pos < start => j.start_pos <= i.start_pos}
\* the instruction of `list` with the least start_pos at or above `start`, if any
NextOf(list, start) ==
    {i \in list : /\ i.start_pos >= start
                  /\ \A j \in list : j.start_pos >= start => i.start_pos <= j.start_pos}

\* by how many ticks the left neighbour in `list` reaches past `start` (0: none)
LeftOverlapAt(list, start) ==
    IF PrevOf(list, start) = {} THEN 0
    ELSE LET prev == CHOOSE i \in PrevOf(list, start) : TRUE
         IN  Max(0, Instr_eff_end_pos(prev) - start)
\* by how many ticks the left neighbour reaches past the start asked for (0: none)
LeftOverlap(chan, args) == LeftOverlapAt(chan.instr_list, AskedStart(chan, args))
\* the start after the 1-tick shift, if there is one
ShiftAfter(start, left) == start + (IF left = 1 THEN 1 ELSE 0)
ShiftedStart(chan, args) == ShiftAfter(AskedStart(chan, args), LeftOverlap(chan, args))
\* the rounded length of the new instruction after the shift (None: go-this)
ShiftedDur(chan, args) ==
    IF args[3] = None THEN None
    ELSE Some(AskedEnd(chan, args) - ShiftedStart(chan, args))
\* the effective end of the new instruction when it starts at `shifted`
EffEndFrom(chan, args, shifted) ==
    IF args[3] = None THEN shifted + 1 ELSE AskedEnd(chan, args)
ShiftedEffEnd(chan, args) == EffEndFrom(chan, args, ShiftedStart(chan, args))
\* the 1-tick collision on the left of a pulse exactly 1 tick long
LeftUnrepairable(chan, args) ==
    /\ LeftOverlap(chan, args) = 1
    /\ args[3] # None
    /\ AskedEnd(chan, args) - AskedStart(chan, args) = 1
\* by how many ticks an instruction from `shifted` to `eff_end` reaches past the
\* start of its right neighbour in `list`
RightOverlapAt(list, shifted, eff_end) ==
    IF NextOf(list, shifted) = {} THEN 0
    ELSE LET next == CHOOSE i \in NextOf(list, shifted) : TRUE
         IN  Max(0, eff_end - next.start_pos)
\* by how many ticks the new instruction reaches past the start of its right neighbour
RightOverlap(chan, args) ==
    RightOverlapAt(chan.instr_list, ShiftedStart(chan, args), ShiftedEffEnd(chan, args))

\* C16: add_instr returns a Collision error and leaves the channel as it was when
\* the left neighbour reaches two or more ticks past the new start, or when, after
\* any 1-tick left repair, the new instruction reaches two or more ticks past the
\* start of its right neighbour; an instruction it does insert never covers the
\* start of an instruction that was there before
C16_CollisionOnTwoTickOverlap ==
    [][(Idle /\ ret'.op = "add_instr"
            /\ AskedWellFormed(devs[ret'.dev].chans[ret'.chan], ret'.args)) =>
        \E chan \in {devs[ret'.dev].chans[ret'.chan]},
           after \in {devs'[ret'.dev].chans[ret'.chan]},
           args \in {ret'.args} :
        \E start \in {AskedStart(chan, args)} :
        \E left \in {LeftOverlapAt(chan.instr_list, start)} :
        \E shifted \in {ShiftAfter(start, left)} :
        \E eff_end \in {EffEndFrom(chan, args, shifted)} :
            /\ left >= 2 =>
                (ret'.res = "Err" /\ ret'.err = "CollisionLeft" /\ after = chan)
            /\ (/\ left <= 1
                /\ ~(left = 1 /\ args[3] # None /\ eff_end - start = 1)
                /\ RightOverlapAt(chan.instr_list, shifted, eff_end) >= 2) =>
                (ret'.res = "Err" /\ ret'.err = "CollisionRight" /\ after = chan)
            /\ ret'.res = "Ok" =>
                \A n \in after.instr_list :
                    n \notin chan.instr_list =>
                        \A e \in chan.instr_list :
                            ~(n.start_pos <= e.start_pos
                                /\ e.start_pos < Instr_eff_end_pos(n))
      ]_vars

\* a pulse asked for ticks 1..4 between [0, 2) and an instruction at tick 2: the
\* start is shifted to 2 and the pulse still covers two ticks of the right neighbour
C16_Witness ==
    /\ OnChan("add_instr") /\ ret.res = "Err" /\ ret.err = "CollisionRight"
    /\ RetChan.clk_period = 1
    /\ ret.args[2] = 1 /\ ret.args[3] # None /\ ret.args[3][1] = 3
    /\ LeftOverlap(RetChan, ret.args) = 1
    /\ RightOverlap(RetChan, ret.args) = 2

\* the 1-tick collision on the right of a pulse that is exactly 1 tick long,
\* as asked for or after the 1-tick shift of its start
RightUnrepairable(chan, args) ==
    /\ LeftOverlap(chan, args) <= 1
    /\ ~LeftUnrepairable(chan, args)
    /\ ShiftedDur(chan, args) = Some(1)
    /\ RightOverlap(chan, args) = 1

\* C17: when a new instruction exactly 1 tick long (as asked for, or after a 1-tick
\* left repair) collides by 1 tick with its left or right neighbour, add_instr
\* returns an Unrepairable1Tick error as an Err value and leaves the edit cache as
\* it was
C17_UnrepairableIsErr ==
    [][(Idle /\ ret'.op = "add_instr"
            /\ AskedWellFormed(devs[ret'.dev].chans[ret'.chan], ret'.args)
            /\ \/ LeftUnrepairable(devs[ret'.dev].chans[ret'.chan], ret'.args)
               \/ RightUnrepairable(devs[ret'.dev].chans[ret'.chan], ret'.args)) =>
        /\ ret'.res = "Err"
        /\ ret'.err \in {"Unrepairable1TickLeft", "Unrepairable1TickRight"}
        /\ devs'[ret'.dev].chans[ret'.chan].instr_list
            = devs[ret'.dev].chans[ret'.chan].instr_list
      ]_vars

\* C18: add_instr with dur_spec = Some((dur, keep_val)) and t >= 0 returns a
\* ShortPulse error and leaves the channel as it was whenever
\* round((t + dur) * samp_rate) - round(t * samp_rate) < 1, also when the rounded
\* end lies below the rounded start
C18_ShortPulseIsErr ==
    [][(Idle /\ ret'.op = "add_instr"
            /\ ret'.args[2] >= 0
            /\ ret'.args[3] # None
            /\ Round(ret'.args[2] + ret'.args[3][1], devs[ret'.dev].chans[ret'.chan].clk_period)
                - Round(ret'.args[2], devs[ret'.dev].chans[ret'.chan].clk_period) < 1) =>
        /\ ret'.res = "Err"
        /\ ret'.err = "ShortPulse"
        /\ devs'[ret'.dev].chans[ret'.chan] = devs[ret'.dev].chans[ret'.chan]
      ]_vars

\* C19: add_instr with dur_spec = None whose start tick, after any 1-tick left
\* shift, is the start_pos of an instruction of the edit cache returns a
\* GoThisBeforeInstr error, and the channel with that instruction is left as it was
C19_GoThisBeforeInstr ==
    [][(Idle /\ ret'.op = "add_instr"
            /\ ret'.args[2] >= 0
            /\ ret'.args[3] = None
            /\ \E e \in devs[ret'.dev].chans[ret'.chan].instr_list :
                e.start_pos = ShiftedStart(devs[ret'.dev].chans[ret'.chan], ret'.args)) =>
        /\ ret'.res = "Err"
        /\ ret'.err = "GoThisBeforeInstr"
        /\ devs'[ret'.dev].chans[ret'.chan] = devs[ret'.dev].chans[ret'.chan]
      ]_vars

\* a go-this instruction asked for tick 1 next to [0, 2) is shifted to tick 2, where
\* a ramp already starts
C19_Witness ==
    /\ OnChan("add_instr") /\ ret.res = "Err" /\ ret.err = "GoThisBeforeInstr"
    /\ ret.args[3] = None /\ ret.args[1].kind = "ConstFn"
    /\ AskedStart(RetChan, ret.args) = 1
    /\ LeftOverlap(RetChan, ret.args) = 1
    /\ \E e \in RetChan.instr_list : e.start_pos = 2 /\ e.func.kind = "LinFn"

\* The instruction add_instr stores after a 1-tick shift of the start asked for
ShiftedInstr(chan, args) ==
    [start_pos |-> AskedStart(chan, args) + 1,
     end_spec |-> IF args[3] = None THEN None
                  ELSE <<AskedEnd(chan, args), args[3][2]>>,
     func |-> args[1]]

\* C20: when the left neighbour ends 1 tick past the start asked for, the new
\* instruction has no duration or a rounded length of 2 ticks or more, and there is
\* no collision on the right, add_instr returns Ok and the edit cache is the one
\* before the call plus the new instruction with its start moved up by one tick and
\* its end as asked for
C20_LeftRepairShiftsStart ==
    [][(Idle /\ ret'.op = "add_instr" /\ ret'.args[2] >= 0) =>
        \E chan \in {devs[ret'.dev].chans[ret'.chan]},
           after \in {devs'[ret'.dev].chans[ret'.chan]},
           args \in {ret'.args} :
        \E start \in {AskedStart(chan, args)} :
        \E left \in {LeftOverlapAt(chan.instr_list, start)} :
        \E eff_end \in {EffEndFrom(chan, args, start + 1)} :
            (/\ left = 1
             /\ args[3] = None \/ eff_end - start >= 2
             /\ RightOverlapAt(chan.instr_list, start + 1, eff_end) = 0) =>
                /\ ret'.res = "Ok"
                /\ after.instr_list = chan.instr_list \cup {ShiftedInstr(chan, args)}
                /\ Cardinality(after.instr_list) = Cardinality(chan.instr_list) + 1
      ]_vars

\* a ramp asked for ticks 1..3 after [0, 2), with an instruction at tick 3 behind it,
\* is stored as [2, 3)
C20_Witness ==
    /\ OnChan("add_instr") /\ ret.res = "Ok"
    /\ ret.args[1].kind = "LinFn" /\ ret.args[2] = 1
    /\ ret.args[3] # None /\ ret.args[3][1] = 2
    /\ LeftOverlap(RetChan, ret.args) = 1
    /\ \E n \in RetChan.instr_list :
        n.start_pos = 2 /\ n.end_spec # None /\ n.end_spec[1] = 3 /\ n.func.kind = "LinFn"
    /\ \E e \in RetChan.instr_list : e.start_pos = 3

\* C21: when the new instruction, after any 1-tick shift of its start, ends one tick
\* past the start of its right neighbour and is at least 2 ticks long, add_instr
\* returns Ok and the edit cache is the one before the call plus the new instruction
\* with its end reduced by one tick and its keep_val flag and function as given
C21_RightRepairTrimsEnd ==
    [][(Idle /\ ret'.op = "add_instr"
            /\ AskedWellFormed(devs[ret'.dev].chans[ret'.chan], ret'.args)
            /\ ret'.args[3] # None) =>
        \E chan \in {devs[ret'.dev].chans[ret'.chan]},
           after \in {devs'[ret'.dev].chans[ret'.chan]},
           args \in {ret'.args} :
        \E start \in {AskedStart(chan, args)} :
        \E left \in {LeftOverlapAt(chan.instr_list, start)} :
        \E shifted \in {ShiftAfter(start, left)} :
        \E eff_end \in {EffEndFrom(chan, args, shifted)} :
            (/\ left <= 1
             /\ eff_end - shifted >= 2
             /\ RightOverlapAt(chan.instr_list, shifted, eff_end) = 1) =>
                /\ ret'.res = "Ok"
                /\ after.instr_list = chan.instr_list
                    \cup {[start_pos |-> shifted,
                           end_spec |-> <<eff_end - 1, args[3][2]>>,
                           func |-> args[1]]}
                /\ Cardinality(after.instr_list) = Cardinality(chan.instr_list) + 1
      ]_vars

\* a ramp asked for ticks 1..4 with keep_val, between [0, 2) and an instruction at
\* tick 3, is stored as [2, 3)
C21_Witness ==
    /\ OnChan("add_instr") /\ ret.res = "Ok"
    /\ ret.args[1].kind = "LinFn" /\ ret.args[2] = 1
    /\ ret.args[3] = <<3, TRUE>>
    /\ LeftOverlap(RetChan, ret.args) = 1
    /\ \E n \in RetChan.instr_list :
        n.start_pos = 2 /\ n.end_spec = <<3, TRUE>> /\ n.func.kind = "LinFn"
    /\ \E e \in RetChan.instr_list : e.start_pos = 3 /\ e.func.kind = "ConstFn"

\* What every channel-level call does to is_fresh_compiled of its channel: false
\* after a successful add_instr or constant, true after a successful compile and
\* after clear_edit_cache
FreshSetByCall(before, after) ==
    /\ (ret'.op \in {"add_instr", "constant"} /\ ret'.res = "Ok")
        => ~after.is_fresh_compiled
    /\ (ret'.op = "compile" /\ ret'.res = "Ok") => after.is_fresh_compiled
    /\ ret'.op = "clear_edit_cache" => after.is_fresh_compiled

\* C22 (as claimed): add_instr and constant set is_fresh_compiled to false, compile
\* and clear_edit_cache set it to true, and the flag goes from true to false only in
\* a successful add_instr or constant or in a clear_compile_cache on a channel with
\* instructions
C22_FreshFlagProtocol ==
    [][(Idle /\ ret'.op # "none" /\ ret'.chan # 0) =>
        \E before \in {devs[ret'.dev].chans[ret'.chan]},
           after \in {devs'[ret'.dev].chans[ret'.chan]} :
            /\ FreshSetByCall(before, after)
            /\ (before.is_fresh_compiled /\ ~after.is_fresh_compiled) =>
                \/ ret'.op \in {"add_instr", "constant"} /\ ret'.res = "Ok"
                \/ ret'.op = "clear_compile_cache" /\ before.instr_list # {}
      ]_vars

\* C22 (amended): as above, and the flag also goes from true to false in a compile
\* that returns Err on a channel with instructions, which has cleared the compile
\* cache by then
C22_FreshFlagProtocolFailedCompile ==
    [][(Idle /\ ret'.op # "none" /\ ret'.chan # 0) =>
        \E before \in {devs[ret'.dev].chans[ret'.chan]},
           after \in {devs'[ret'.dev].chans[ret'.chan]} :
            /\ FreshSetByCall(before, after)
            /\ (before.is_fresh_compiled /\ ~after.is_fresh_compiled) =>
                \/ ret'.op \in {"add_instr", "constant"} /\ ret'.res = "Ok"
                \/ ret'.op = "clear_compile_cache" /\ before.instr_list # {}
                \/ /\ ret'.op = "compile" /\ ret'.res = "Err"
                   /\ before.instr_list # {}
                   /\ after.compile_cache_ends = <<>>
      ]_vars

\* a compile to a stop position below the end of the last instruction: Err, the
\* compile cache cleared and the flag false
C22_Witness ==
    /\ OnChan("compile") /\ ret.res = "Err"
    /\ RetChan.instr_list # {}
    /\ ret.args[1] < Unwrap(BaseChan_last_instr_end_pos(RetChan))
    /\ ret.args[1] > 0
    /\ RetChan.compile_cache_ends = <<>>
    /\ ~RetChan.is_fresh_compiled

\* The end times (eff_end_pos * clk_period) of all instructions of all channels
AllEndTimes(ds) ==
    {Instr_eff_end_pos(i) * ds[k].clk_period :
        <<k, i>> \in UNION {{<<k, i>> : i \in UNION {ds[k].chans[c].instr_list :
                                                      c \in 1..Len(ds[k].chans)}} :
                            k \in 1..Len(ds)}}
\* The time the streamer reset is made at: the one given, or the latest end time, or 0
ResetTimeFor(ds, reset_time) ==
    IF IsSome(reset_time) THEN Unwrap(reset_time)
    ELSE IF AllEndTimes(ds) = {} THEN 0
    ELSE CHOOSE t \in AllEndTimes(ds) : \A u \in AllEndTimes(ds) : u <= t

\* C23: Streamer.add_reset_instr with Some(t) below the latest end time of the
\* instructions returns Err and changes nothing; otherwise it returns Ok and the edit
\* cache of every channel of every device, with or without instructions, gains one
\* go-this instruction of the channel's reset value at tick
\* round(t_reset * samp_rate) of its device, so that every channel has instructions
C23_StreamerResetReachesAll ==
    [][(Idle /\ ret'.op = "add_reset_instr" /\ ret'.dev = 0) =>
        \E reset_time \in {ret'.args[1]} :
        \E t_reset \in {ResetTimeFor(devs, reset_time)} :
            IF IsSome(reset_time) /\ \E u \in AllEndTimes(devs) : t_reset < u
            THEN ret'.res = "Err" /\ devs' = devs
            ELSE
                /\ ret'.res = "Ok"
                /\ Len(devs') = Len(devs)
                /\ \A k \in 1..Len(devs) :
                    /\ Len(devs'[k].chans) = Len(devs[k].chans)
                    /\ \A c \in 1..Len(devs[k].chans) :
                        \E reset \in {[start_pos |-> Round(t_reset, devs[k].clk_period),
                                       end_spec |-> None,
                                       func |-> ConstFn(devs[k].chans[c].rst_val)]} :
                            /\ reset \notin devs[k].chans[c].instr_list
                            /\ devs'[k].chans[c].instr_list
                                = devs[k].chans[c].instr_list \cup {reset}
      ]_vars

\* reset_time = None after a pulse on ao0 that ends at tick 2 (4 s): ao0 and the idle
\* ao1 get the reset at tick 2, the idle digital device at tick round(4 / 3) = 1
C23_Witness ==
    /\ OnStreamer("add_reset_instr") /\ ret.res = "Ok" /\ ret.args = <<None>>
    /\ Len(devs) = 2 /\ Len(devs[1].chans) = 2
    /\ Cardinality(devs[1].chans[1].instr_list) = 2
    /\ \E i \in devs[1].chans[1].instr_list : i.end_spec # None /\ i.end_spec[1] = 2
    /\ devs[1].chans[2].instr_list = {Instr_new(2, None, ConstFn(RstVal))}
    /\ devs[2].chans[1].instr_list = {Instr_new(1, None, ConstFn(RstVal))}

\* C24: Channel.add_reset_instr(reset_pos) returns Err and leaves the channel as it
\* was when reset_pos is below the effective end of the last instruction; otherwise
\* it returns Ok and the edit cache gains a go-this instruction of the reset value at
\* reset_pos, which is then the last instruction, with effective end reset_pos + 1
C24_ChanResetAfterLast ==
    [][(Idle /\ ret'.op = "add_reset_instr" /\ ret'.chan # 0) =>
        \E before \in {devs[ret'.dev].chans[ret'.chan]},
           after \in {devs'[ret'.dev].chans[ret'.chan]},
           reset_pos \in {ret'.args[1]} :
            IF \E last \in before.instr_list :
                /\ \A i \in before.instr_list : i.start_pos <= last.start_pos
                /\ reset_pos < Instr_eff_end_pos(last)
            THEN ret'.res = "Err" /\ after = before
            ELSE
                \E reset \in {[start_pos |-> reset_pos, end_spec |-> None,
                               func |-> ConstFn(before.rst_val)]} :
                    /\ ret'.res = "Ok"
                    /\ reset \notin before.instr_list
                    /\ after.instr_list = before.instr_list \cup {reset}
                    /\ \A i \in after.instr_list : i.start_pos <= reset_pos
                    /\ BaseChan_last_instr_end_pos(after) = Some(reset_pos + 1)
      ]_vars

\* a reset at tick 2 after a pulse [0, 1): the reset is the last instruction
C24_Witness ==
    /\ OnChan("add_reset_instr") /\ ret.res = "Ok" /\ ret.args = <<2>>
    /\ Cardinality(RetChan.instr_list) = 2
    /\ \E i \in RetChan.instr_list : i.start_pos = 0 /\ i.end_spec # None /\ i.end_spec[1] = 1
    /\ Instr_new(2, None, ConstFn(RstVal)) \in RetChan.instr_list
    /\ BaseChan_last_instr_end_pos(RetChan) = Some(3)

\* Channel <<k, c>> lies underneath the channel, device or streamer the call was on
Underneath(call, k, c) ==
    /\ call.dev \in {0, k}
    /\ call.chan \in {0, c}

\* C25: clear_edit_cache on a channel, a device or the streamer leaves every channel
\* underneath it with an empty edit cache, an empty compile cache and
\* is_fresh_compiled = true; clear_compile_cache leaves every channel underneath it
\* with an empty compile cache, its edit cache as before and is_fresh_compiled true
\* exactly when that edit cache is empty; the other channels are as before
C25_ClearCaches ==
    [][(Idle /\ ret'.op \in {"clear_edit_cache", "clear_compile_cache"}) =>
        /\ ret'.res = "Ok"
        /\ Len(devs') = Len(devs)
        /\ \A k \in 1..Len(devs) :
            /\ Len(devs'[k].chans) = Len(devs[k].chans)
            /\ \A c \in 1..Len(devs[k].chans) :
                \E before \in {devs[k].chans[c]}, after \in {devs'[k].chans[c]} :
                    IF ~Underneath(ret', k, c) THEN after = before
                    ELSE
                        /\ after.compile_cache_ends = <<>>
                        /\ after.compile_cache_fns = <<>>
                        /\ after.instr_list =
                            IF ret'.op = "clear_edit_cache" THEN {} ELSE before.instr_list
                        /\ after.is_fresh_compiled <=> (after.instr_list = {})
                        /\ ret'.op = "clear_edit_cache" =>
                            (after.is_fresh_compiled /\ ~BaseChan_got_instructions(after))
      ]_vars

\* clear_edit_cache on device 1 of a streamer whose two devices had been edited: the
\* channels of device 1 are empty and fresh, device 2 keeps its instruction
C25_Witness ==
    /\ OnDev("clear_edit_cache") /\ ret.dev = 1
    /\ Len(devs) = 2
    /\ ~BaseDev_got_instructions(devs[1])
    /\ \A c \in 1..Len(devs[1].chans) :
        devs[1].chans[c].is_fresh_compiled /\ devs[1].chans[c].compile_cache_ends = <<>>
    /\ devs[2].chans[1].instr_list # {}
    /\ devs[2].chans[1].compile_cache_ends # <<>>

\* The last entry of the compile cache of a channel, if there is one
LastCompiledEnd(chan) ==
    IF chan.compile_cache_ends = <<>> THEN None
    ELSE Some(chan.compile_cache_ends[Len(chan.compile_cache_ends)])

\* C26: Device.validate_compile_cache returns Err when the device has no channel with
\* instructions, or one of them is not fresh-compiled, or two of them
\* differ in the stop position of their compile caches, and Ok in every other case;
\* the result is decided by the channels with instructions alone
C26_ValidateErrExactly ==
    OnDev("validate_compile_cache") =>
        LET active == {c \in 1..Len(RetDev.chans) : RetDev.chans[c].instr_list # {}}
            rejected ==
                \/ active = {}
                \/ \E c \in active : ~RetDev.chans[c].is_fresh_compiled
                \/ \E c1, c2 \in active :
                    LastCompiledEnd(RetDev.chans[c1]) # LastCompiledEnd(RetDev.chans[c2])
        IN  ret.res = (IF rejected THEN "Err" ELSE "Ok")

\* C27: after any sequence of add_ao_dev and add_do_dev calls no two devices of the
\* streamer bear the same name, whatever their variants; registering a device under
\* a name that a device of either variant already bears returns Err and leaves the
\* device map, its contents and its insertion order, as it was.
C27_DevNamesUnique ==
    [][(Idle /\ ret'.op \in {"add_ao_dev", "add_do_dev"}) =>
        /\ (\E k \in 1..Len(devs) : devs[k].name = ret'.args[1])
            => (ret'.res = "Err" /\ devs' = devs)
        /\ \A j, k \in 1..Len(devs') : devs'[j].name = devs'[k].name => j = k
      ]_vars

\* a digital device was refused under the name of the analog device registered
\* first of two
C27_Witness ==
    /\ ret.op = "add_do_dev"
    /\ ret.res = "Err"
    /\ Len(devs) = 2
    /\ devs[1].variant = "AO"
    /\ devs[1].name = ret.args[1]

\* C28 (as claimed): the registration check of a device returns Err when the new
\* channel bears the name of a channel already registered, or when its samp_rate
\* differs from the device's by 1e-10 Hz or more, so that after any sequence of
\* registrations the channel names of the device are pairwise distinct and every
\* channel has the samp_rate of the device.
C28_ChanRegistrationSameRate ==
    [][(Idle /\ ret'.op = "add_channel") =>
        \E dev \in {devs[ret'.dev]}, after \in {devs'[ret'.dev]}, args \in {ret'.args} :
        /\ (\/ \E i \in 1..Len(dev.chans) : dev.chans[i].name = args[1]
            \/ args[2] # dev.clk_period
            \/ args[3] >= RateTol
            \/ 0 - args[3] >= RateTol) => ret'.res = "Err"
        /\ \A i, j \in 1..Len(after.chans) :
            after.chans[i].name = after.chans[j].name => i = j
        /\ \A i \in 1..Len(after.chans) :
            /\ after.chans[i].clk_period = after.clk_period
            /\ after.chans[i].rate_off = 0
      ]_vars

\* C28 (amended): as above, every channel having a samp_rate that differs from the
\* device's by less than 1e-10 Hz, not necessarily by nothing.
C28_ChanRegistrationWithinTol ==
    [][(Idle /\ ret'.op = "add_channel") =>
        \E dev \in {devs[ret'.dev]}, after \in {devs'[ret'.dev]}, args \in {ret'.args} :
        /\ (\/ \E i \in 1..Len(dev.chans) : dev.chans[i].name = args[1]
            \/ args[2] # dev.clk_period
            \/ args[3] >= RateTol
            \/ 0 - args[3] >= RateTol) => ret'.res = "Err"
        /\ \A i, j \in 1..Len(after.chans) :
            after.chans[i].name = after.chans[j].name => i = j
        /\ \A i \in 1..Len(after.chans) :
            /\ after.chans[i].clk_period = after.clk_period
            /\ after.chans[i].rate_off < RateTol
            /\ 0 - after.chans[i].rate_off < RateTol
      ]_vars

\* a channel was refused for its name by a device that holds two channels, one of
\* them registered with a samp_rate 0.5e-10 Hz off the device's
C28_Witness ==
    /\ ret.op = "add_channel"
    /\ ret.res = "Err"
    /\ ret.err = "NameTaken"
    /\ Len(devs[ret.dev].chans) = 2
    /\ \E i \in 1..2 : devs[ret.dev].chans[i].rate_off = 1

\* C29: after a successful Channel.compile the compile cache starts with a constant
\* segment of the channel default value ending at the start_pos of the first
\* instruction, followed by the segment of that instruction, if and only if that
\* start_pos is above 0; when the first instruction starts at tick 0 the first
\* entry of the compile cache is the function of that instruction.
C29_LeadingPadding ==
    (OnChan("compile") /\ ret.res = "Ok") =>
        \E first \in {i \in RetChan.instr_list :
                        \A j \in RetChan.instr_list : i.start_pos <= j.start_pos} :
        LET ends == RetChan.compile_cache_ends
            fns == RetChan.compile_cache_fns
            padded == /\ Len(ends) >= 2
                      /\ ends[1] = first.start_pos
                      /\ fns[1] = ConstFn(RetChan.dflt_val)
                      /\ fns[2] = first.func
                      /\ ends[2] > first.start_pos
        IN  /\ padded <=> first.start_pos > 0
            /\ first.start_pos = 0 => (Len(ends) >= 1 /\ fns[1] = first.func /\ ends[1] > 0)

\* a successful compile of a channel whose first instruction starts after tick 0
C29_Witness ==
    /\ OnChan("compile") /\ ret.res = "Ok"
    /\ \A i \in RetChan.instr_list : i.start_pos > 0
    /\ RetChan.compile_cache_fns[1] = ConstFn(RetChan.dflt_val)
    /\ Len(RetChan.compile_cache_ends) = 2

\* C30: after a successful Channel.compile(stop_pos), for every instruction with a
\* specified end (end_pos, keep_val) the compile cache holds the segment (end_pos,
\* func) right after the segment that ends at the instruction's start; when end_pos
\* is below the next edge (the start_pos of the next instruction, stop_pos for the
\* last one) the next entry is a constant segment ending at the next edge, of the
\* value of func at end_pos / samp_rate if keep_val and of the channel default value
\* otherwise; when end_pos is the next edge no padding follows: the segment is the
\* last one or is followed by the segment of the next instruction.
C30_PaddingAfterSpecifiedEnd ==
    (OnChan("compile") /\ ret.res = "Ok") =>
        \E ends \in {RetChan.compile_cache_ends}, fns \in {RetChan.compile_cache_fns} :
        \A instr \in {i \in RetChan.instr_list : i.end_spec # None} :
            LET end_pos == instr.end_spec[1]
                keep_val == instr.end_spec[2]
                later == {j \in RetChan.instr_list : j.start_pos > instr.start_pos}
                next_edge == IF later = {} THEN ret.args[1]
                             ELSE CHOOSE s \in {j.start_pos : j \in later} :
                                    \A j \in later : s <= j.start_pos
            IN  \E k \in 1..Len(ends) :
                /\ ends[k] = end_pos /\ fns[k] = instr.func
                /\ IF k = 1 THEN instr.start_pos = 0 ELSE ends[k - 1] = instr.start_pos
                /\ end_pos < next_edge =>
                    /\ k + 1 <= Len(ends)
                    /\ ends[k + 1] = next_edge
                    /\ fns[k + 1] = ConstFn(IF keep_val
                                            THEN Calc(instr.func, end_pos * RetChan.clk_period)
                                            ELSE RetChan.dflt_val)
                /\ end_pos = next_edge =>
                    IF later = {} THEN k = Len(ends)
                    ELSE /\ k + 1 <= Len(ends)
                         /\ ends[k + 1] > next_edge
                         /\ \E j \in later : j.start_pos = next_edge /\ fns[k + 1] = j.func

\* a successful compile of a channel holding an instruction whose value is kept up
\* to the next instruction, which ends at the stop position
C30_Witness ==
    /\ OnChan("compile") /\ ret.res = "Ok"
    /\ \E a, b \in RetChan.instr_list :
        /\ a.end_spec # None /\ b.end_spec # None
        /\ a.end_spec[2]
        /\ a.end_spec[1] < b.start_pos
        /\ b.end_spec[1] = ret.args[1]

\* C31: after a successful Channel.compile(stop_pos), every instruction without a
\* specified end has exactly one segment in the compile cache: it carries the
\* function of the instruction, begins at the instruction's start_pos and ends at
\* the start_pos of the next instruction, or at stop_pos for the last instruction,
\* so that no padding segment lies between the instruction and the next edge.
C31_GoThisSpansToNextEdge ==
    (OnChan("compile") /\ ret.res = "Ok") =>
        \E ends \in {RetChan.compile_cache_ends}, fns \in {RetChan.compile_cache_fns} :
        \A instr \in {i \in RetChan.instr_list : i.end_spec = None} :
            LET later == {j \in RetChan.instr_list : j.start_pos > instr.start_pos}
                next_edge == IF later = {} THEN ret.args[1]
                             ELSE CHOOSE s \in {j.start_pos : j \in later} :
                                    \A j \in later : s <= j.start_pos
                own == {k \in 1..Len(ends) :
                          /\ IF k = 1 THEN 0 <= instr.start_pos ELSE ends[k - 1] <= instr.start_pos
                          /\ ends[k] > instr.start_pos}
                upto == {k \in 1..Len(ends) :
                          /\ ends[k] > instr.start_pos
                          /\ ends[k] <= next_edge}
            IN  /\ Cardinality(upto) = 1
                /\ upto = own
                /\ \A k \in upto :
                    /\ fns[k] = instr.func
                    /\ ends[k] = next_edge
                    /\ IF k = 1 THEN instr.start_pos = 0 ELSE ends[k - 1] = instr.start_pos

\* a successful compile of a channel holding an instruction without a specified end
\* that is followed, more than one tick later, by another instruction
C31_Witness ==
    /\ OnChan("compile") /\ ret.res = "Ok"
    /\ \E a, b \in RetChan.instr_list :
        /\ a.end_spec = None
        /\ a.start_pos + 1 < b.start_pos

\* C32: for a channel whose is_fresh_compiled flag is set and whose compile cache
\* reaches compiled_stop_pos, fill_samps on a window of n ticks from start_pos with
\* start_pos + n <= compiled_stop_pos returns Ok and leaves in every element i of the
\* buffer the value, at the time point t_buf[i] of tick start_pos + i, of the first
\* compile-cache segment whose end exceeds that tick, whether the window starts or
\* ends on a segment boundary, spans several segments or ends at compiled_stop_pos;
\* a window of no tick returns Ok with the empty buffer.
C32_FillSampsBySegment ==
    (/\ OnChan("fill_samps")
     /\ RetChan.is_fresh_compiled
     /\ RetChan.compile_cache_ends # <<>>
     /\ ret.args[1] + ret.args[2]
            <= RetChan.compile_cache_ends[Len(RetChan.compile_cache_ends)]) =>
        /\ ret.res = "Ok"
        /\ Len(ret.val) = ret.args[2]
        /\ \A i \in 1..ret.args[2] :
            ret.val[i] = SampleAt(RetChan, ret.args[1] + i - 1, RetChan.clk_period)

\* a window of three ticks that starts at tick 0, ends at compiled_stop_pos and was
\* filled from more than one segment
C32_Witness ==
    /\ OnChan("fill_samps") /\ ret.res = "Ok"
    /\ RetChan.is_fresh_compiled
    /\ ret.args = <<0, 3>>
    /\ Len(RetChan.compile_cache_ends) >= 2
    /\ RetChan.compile_cache_ends[Len(RetChan.compile_cache_ends)] = 3
    /\ ret.val[1] # ret.val[3]

\* The value a channel is to hold after the specified end of its last instruction
ClosingValue(chan) ==
    LET last == CHOOSE a \in chan.instr_list : \A b \in chan.instr_list : b.start_pos <= a.start_pos
    IN  IF last.end_spec[2]
        THEN Calc(last.func, last.end_spec[1] * chan.clk_period)
        ELSE chan.dflt_val

\* The last instruction of the channel has a specified end, at tick S
LastEndsAt(chan, S) ==
    /\ chan.instr_list # {}
    /\ \E a \in chan.instr_list :
        /\ \A b \in chan.instr_list : b.start_pos <= a.start_pos
        /\ a.end_spec # None
        /\ a.end_spec[1] = S

\* C33: after a successful Device.compile(stop_time) that extends the stop position
\* to S + 1, S = round(stop_time * samp_rate) being the specified end of the last
\* instruction of some channel, the compile cache of every channel whose last
\* instruction has the specified end S closes with a constant segment over the one
\* tick [S, S + 1) that holds the channel default value if keep_val is false and the
\* value of the instruction at its end if keep_val is true; and calc_samps up to
\* end_pos = compiled_stop_pos returns that value as the last sample of the row of
\* every channel whose last instruction ends, as specified, one tick before.
C33_ClosingEdgeMaterialized ==
    /\ (OnDev("compile") /\ ret.res = "Ok") =>
        \E S \in {Round(ret.args[1], RetDev.clk_period)} :
        \A c \in 1..Len(RetDev.chans) :
            LastEndsAt(RetDev.chans[c], S) =>
                \E ends \in {RetDev.chans[c].compile_cache_ends},
                   fns \in {RetDev.chans[c].compile_cache_fns} :
                /\ Len(ends) >= 2
                /\ ends[Len(ends)] = S + 1
                /\ ends[Len(ends) - 1] = S
                /\ fns[Len(fns)] = ConstFn(ClosingValue(RetDev.chans[c]))
    /\ (/\ OnDev("calc_samps")
        /\ BaseDev_validate_compile_cache(RetDev) = "Ok"
        /\ ret.args[2] + 1 <= ret.args[3]
        /\ ret.args[3] = BaseDev_compiled_stop_pos(RetDev).val
        /\ ret.args[1] >= Cardinality(ActiveIdx(RetDev)) * (ret.args[3] - ret.args[2])) =>
        /\ ret.res = "Ok"
        /\ \A c \in ActiveIdx(RetDev) :
            LastEndsAt(RetDev.chans[c], ret.args[3] - 1) =>
                ret.val[(Cardinality({j \in ActiveIdx(RetDev) : j < c}) + 1)
                            * (ret.args[3] - ret.args[2])]
                    = ClosingValue(RetDev.chans[c])

\* samples were asked for up to the compiled stop position of a device with two
\* active channels, the last pulse of the second one ending one tick before without
\* its value being kept: the last sample of its row is the default value, the one
\* before is the pulse
C33_Witness ==
    /\ OnDev("calc_samps") /\ ret.res = "Ok"
    /\ BaseDev_validate_compile_cache(RetDev) = "Ok"
    /\ ActiveIdx(RetDev) = {1, 2}
    /\ ret.args[3] = BaseDev_compiled_stop_pos(RetDev).val
    /\ ret.args[3] - ret.args[2] = 2
    /\ ret.args[1] = 4
    /\ LastEndsAt(RetDev.chans[2], ret.args[3] - 1)
    /\ ~LastEndsAt(RetDev.chans[1], ret.args[3] - 1)
    /\ ret.val[4] = RetDev.chans[2].dflt_val
    /\ ret.val[3] # ret.val[4]

\* C34: Device.compile(stop_time) returns Err when no channel of the device has
\* instructions or when round(stop_time * samp_rate) is below the greatest effective
\* end of the last instructions of its channels, and then leaves every channel (its
\* compile cache and its is_fresh_compiled flag) as it was; in every other case it
\* returns Ok with every channel that has instructions compiled up to one common
\* stop position and marked fresh, and the channels without instructions untouched.
C34_DevCompileAllOrNothing ==
    [][(Idle /\ ret'.op = "compile" /\ ret'.dev # 0 /\ ret'.chan = 0) =>
        \E dev \in {devs[ret'.dev]}, after \in {devs'[ret'.dev]} :
        \E S \in {Round(ret'.args[1], dev.clk_period)} :
        \E active \in {{c \in 1..Len(dev.chans) : dev.chans[c].instr_list # {}}} :
            IF \/ active = {}
               \/ \E c \in active : \E a \in dev.chans[c].instr_list :
                    /\ \A b \in dev.chans[c].instr_list : b.start_pos <= a.start_pos
                    /\ S < (IF a.end_spec = None THEN a.start_pos + 1 ELSE a.end_spec[1])
            THEN /\ ret'.res = "Err"
                 /\ devs' = devs
            ELSE /\ ret'.res = "Ok"
                 /\ \A c \in 1..Len(dev.chans) :
                     IF c \in active
                     THEN /\ after.chans[c].is_fresh_compiled
                          /\ after.chans[c].instr_list = dev.chans[c].instr_list
                          /\ after.chans[c].compile_cache_ends # <<>>
                          /\ \A c2 \in active :
                                LastEnd(after.chans[c]) = LastEnd(after.chans[c2])
                          /\ LastEnd(after.chans[c]) \in {S, S + 1}
                     ELSE after.chans[c] = dev.chans[c]
      ]_vars

\* a device compile was refused for a stop time below the end of the second channel
\* while the first channel, which ends earlier, keeps the compile it had
C34_Witness ==
    /\ OnDev("compile") /\ ret.res = "Err"
    /\ ActiveIdx(RetDev) = {1, 2}
    /\ RetDev.chans[1].compile_cache_ends # <<>>
    /\ RetDev.chans[1].is_fresh_compiled
    /\ Round(ret.args[1], RetDev.clk_period)
         >= Instr_eff_end_pos(LastInstr(RetDev.chans[1].instr_list))
    /\ Round(ret.args[1], RetDev.clk_period)
         < Instr_eff_end_pos(LastInstr(RetDev.chans[2].instr_list))

\* C35: whenever add_instr or constant on a channel returns Err (a pulse shorter than
\* one tick, a collision with the left or the right neighbour, a go-this instruction
\* before an existing one), the edit cache, the compile cache and the
\* is_fresh_compiled flag of the channel, and every other channel, are as they were
\* before the call: a refused insertion leaves a valid compile valid.
C35_RejectedInsertNoEffect ==
    [][(Idle /\ ret'.op \in {"add_instr", "constant"} /\ ret'.res = "Err") =>
        /\ ret'.err \in {"ShortPulse", "CollisionLeft", "CollisionRight", "GoThisBeforeInstr"}
        /\ devs'[ret'.dev].chans[ret'.chan].instr_list
             = devs[ret'.dev].chans[ret'.chan].instr_list
        /\ devs'[ret'.dev].chans[ret'.chan].compile_cache_ends
             = devs[ret'.dev].chans[ret'.chan].compile_cache_ends
        /\ devs'[ret'.dev].chans[ret'.chan].compile_cache_fns
             = devs[ret'.dev].chans[ret'.chan].compile_cache_fns
        /\ devs'[ret'.dev].chans[ret'.chan].is_fresh_compiled
             = devs[ret'.dev].chans[ret'.chan].is_fresh_compiled
        /\ devs' = devs
      ]_vars

\* an insertion was refused for a collision on a channel that holds an instruction
\* and a valid compile of it
C35_Witness ==
    /\ OnChan("add_instr") /\ ret.res = "Err"
    /\ ret.err \in {"CollisionLeft", "CollisionRight"}
    /\ RetChan.instr_list # {}
    /\ RetChan.is_fresh_compiled
    /\ RetChan.compile_cache_ends # <<>>

\* C36: a Channel.compile(stop_pos) that returns Err does so on an empty edit cache
\* or on a stop_pos below the effective end of the last instruction; it leaves the
\* edit cache as it was and the compile cache empty, whatever was compiled before,
\* with is_fresh_compiled set exactly when the edit cache is empty; if the channel
\* has instructions, fill_samps on any window then returns Err and leaves the
\* buffer as it was.
C36_FailedCompileDiscards ==
    [][(Idle /\ ret'.op = "compile" /\ ret'.dev # 0 /\ ret'.chan # 0 /\ ret'.res = "Err") =>
        \E chan \in {devs[ret'.dev].chans[ret'.chan]},
           after \in {devs'[ret'.dev].chans[ret'.chan]} :
        /\ \/ chan.instr_list = {}
           \/ \E a \in chan.instr_list :
                /\ \A b \in chan.instr_list : b.start_pos <= a.start_pos
                /\ ret'.args[1] < (IF a.end_spec = None THEN a.start_pos + 1 ELSE a.end_spec[1])
        /\ after.instr_list = chan.instr_list
        /\ after.compile_cache_ends = <<>>
        /\ after.compile_cache_fns = <<>>
        /\ after.is_fresh_compiled <=> (chan.instr_list = {})
        /\ chan.instr_list # {} =>
            \A start_pos \in Positions, n \in 0..MaxBuf :
                \E r \in {BaseChan_fill_samps(after, start_pos, FreshBuf(n),
                              Linspace(PosToTime(start_pos, after.clk_period),
                                       PosToTime(start_pos + n - 1, after.clk_period), n))} :
                r.res = "Err" /\ r.res_arr = FreshBuf(n)
      ]_vars

\* a compile was refused for a stop position below the end of the instructions: the
\* channel holds its instructions, no compiled segment, and is not fresh
C36_Witness ==
    /\ OnChan("compile") /\ ret.res = "Err"
    /\ RetChan.instr_list # {}
    /\ ret.args[1] < Instr_eff_end_pos(LastInstr(RetChan.instr_list))
    /\ RetChan.compile_cache_ends = <<>>
    /\ ~RetChan.is_fresh_compiled

\* C37: in every state reachable from newly constructed channels through the edit,
\* compile and clear operations of the channels, the devices and the streamer, a
\* channel whose edit cache is empty has an empty compile cache and its
\* is_fresh_compiled flag set.
C37_InactiveChanIsClean ==
    \A d \in DevIdx : \A c \in ChanIdx(d) :
        devs[d].chans[c].instr_list = {} =>
            /\ devs[d].chans[c].compile_cache_ends = <<>>
            /\ devs[d].chans[c].compile_cache_fns = <<>>
            /\ devs[d].chans[c].is_fresh_compiled

\* a compile was refused on a channel without instructions, which stays clean
C37_Witness ==
    /\ OnChan("compile") /\ ret.res = "Err"
    /\ RetChan.instr_list = {}
    /\ RetChan.compile_cache_ends = <<>>
    /\ RetChan.is_fresh_compiled

\* C38: Channel.compile merges consecutive segments of the same value into one
\* entry of the compile cache: after a successful compile no two adjacent entries of
\* the compile cache carry the same function.
C38_AdjacentSegmentsMerged ==
    (OnChan("compile") /\ ret.res = "Ok") =>
        \A i \in 1..(Len(RetChan.compile_cache_fns) - 1) :
            RetChan.compile_cache_fns[i] # RetChan.compile_cache_fns[i + 1]

\* C39: Channel.last_instr_end_pos returns the effective end of the instruction
\* with the greatest start_pos (its end_pos if it has a specified end, its
\* start_pos + 1 otherwise), Device.last_instr_end_pos returns the greatest of these
\* over the channels of the device, and both return the number 0 when there is no
\* instruction, on a new channel or device and again after clear_edit_cache.
C39_LastInstrEndPos ==
    \A d \in DevIdx :
        /\ \A c \in ChanIdx(d) :
            \E chan \in {devs[d].chans[c]} :
            \E r \in {BaseChan_last_instr_end_pos(chan)} :
            /\ IsSome(r)
            /\ IF chan.instr_list = {} THEN Unwrap(r) = 0
               ELSE \E a \in chan.instr_list :
                    /\ \A b \in chan.instr_list : b.start_pos <= a.start_pos
                    /\ Unwrap(r) = (IF a.end_spec = None THEN a.start_pos + 1
                                    ELSE a.end_spec[1])
        /\ \E r \in {BaseDev_last_instr_end_pos(devs[d])} :
            /\ IsSome(r)
            /\ \A c \in ChanIdx(d) : \A a \in devs[d].chans[c].instr_list :
                Unwrap(r) >= (IF a.end_spec = None THEN a.start_pos + 1 ELSE a.end_spec[1])
            /\ \/ Unwrap(r) = 0 /\ \A c \in ChanIdx(d) : devs[d].chans[c].instr_list = {}
               \/ \E c \in ChanIdx(d) : \E a \in devs[d].chans[c].instr_list :
                    Unwrap(r) = (IF a.end_spec = None THEN a.start_pos + 1 ELSE a.end_spec[1])

\* The edit cache holds one instruction, from t = 1.0 s for 0.5 s at 10 MHz, whose
\* value is not kept
HoldsFirstPulse(chan) ==
    /\ Cardinality(chan.instr_list) = 1
    /\ \A a \in chan.instr_list : a.start_pos = 10000000 /\ a.end_spec = <<15000000, FALSE>>

\* C40 (as claimed): on a channel at 10 MHz that holds an instruction inserted at
\* t = 1.0 with dur = 0.5 and keep_val = false, inserting an instruction at t = 0.5
\* with dur = 0.5001 and keep_val = true returns Ok: the instruction is trimmed by
\* one tick to end at the start_pos of the first one, and the edit cache holds the
\* two intervals, which do not overlap.
C40_TrimAtTenMHz ==
    [][(/\ Idle /\ ret'.op = "add_instr"
        /\ HoldsFirstPulse(devs[ret'.dev].chans[ret'.chan])
        /\ ret'.args[2] = 5000000
        /\ ret'.args[3] = <<5001000, TRUE>>) =>
        /\ ret'.res = "Ok"
        /\ devs'[ret'.dev].chans[ret'.chan].instr_list
             = devs[ret'.dev].chans[ret'.chan].instr_list
               \cup {[func |-> ret'.args[1], start_pos |-> 5000000,
                      end_spec |-> <<10000000, TRUE>>]}
      ]_vars

\* C40 (amended): with dur = 0.5000001 the end of the second instruction rounds to
\* tick 10_000_001, one tick past the start_pos 10_000_000 of the first one: the call
\* returns Ok, the instruction is trimmed to end at 10_000_000 and the edit cache
\* holds the two intervals, which do not overlap; with dur = 0.5001 the end rounds to
\* 10_001_000, 1000 ticks past that start_pos: the call returns a collision error and
\* leaves the channel as it was.
C40_TrimAtTenMHzOneTick ==
    [][(/\ Idle /\ ret'.op = "add_instr"
        /\ HoldsFirstPulse(devs[ret'.dev].chans[ret'.chan])
        /\ ret'.args[2] = 5000000) =>
        \E chan \in {devs[ret'.dev].chans[ret'.chan]},
           after \in {devs'[ret'.dev].chans[ret'.chan]} :
        /\ ret'.args[3] = <<5000001, TRUE>> =>
            /\ ret'.res = "Ok"
            /\ after.instr_list
                 = chan.instr_list \cup {[func |-> ret'.args[1], start_pos |-> 5000000,
                                          end_spec |-> <<10000000, TRUE>>]}
            /\ Cardinality(after.instr_list) = 2
        /\ ret'.args[3] = <<5001000, TRUE>> =>
            /\ ret'.res = "Err"
            /\ ret'.err = "CollisionRight"
            /\ after = chan
      ]_vars

\* the second instruction was inserted with dur = 0.5000001 and trimmed by one tick
C40_Witness ==
    /\ OnChan("add_instr") /\ ret.res = "Ok"
    /\ ret.args[2] = 5000000
    /\ ret.args[3] = <<5000001, TRUE>>
    /\ \E a, b \in RetChan.instr_list :
        /\ a.start_pos = 5000000 /\ a.end_spec = <<10000000, TRUE>>
        /\ b.start_pos = 10000000 /\ b.end_spec = <<15000000, FALSE>>
    /\ Cardinality(RetChan.instr_list) = 2

====
